---- MODULE Spec2Model ----
(***************************************************************************)
(* Model of the Subversion change-extraction pipeline of                   *)
(* src/biz/subversion/create_webhook.py (DiffFormatter, SubversionWebhook) *)
(*                                                                         *)
(* Representation.  A Python str is a sequence of one-character strings    *)
(* (a newline is the character "\n"), so that split, strip, startswith,    *)
(* substring search and the regular expressions of the code are computed   *)
(* character by character.  Python's None is a value outside every str.    *)
(* XML documents are given as the element tree ElementTree parses them to. *)
(***************************************************************************)
EXTENDS Integers, Sequences, FiniteSets, TLC

---------------------------------------------------------------------------
(* Bounds of the model *)
\* longest body (hunk lines) of a generated svn diff
MaxBody == 2
\* longest text of raw lines handed to the DiffFormatter
MaxRawLines == 2
\* most lines of a `diff --summarize` output
MaxSummaryLines == 2
\* most paths of an explicit commit_files list
MaxFiles == 2
\* most <path> elements of a log entry
MaxLogPaths == 2

---------------------------------------------------------------------------
(* Python values *)
\* None where a str is expected
None == <<"None">>
\* None where an object (a pydantic model, a dict) is expected
NoneObj == [none |-> TRUE]
\* None where a list of str is expected
NoneList == <<None>>

NL == "\n"
Whitespace == {" ", "\t", "\n", "\r"}
Digits == <<"0","1","2","3","4","5","6","7","8","9">>

\* str.lower(), character by character
Lower(s) ==
    LET LowerChar(c) ==
        CASE c = "A" -> "a" [] c = "B" -> "b" [] c = "C" -> "c" [] c = "D" -> "d"
          [] c = "E" -> "e" [] c = "F" -> "f" [] c = "G" -> "g" [] c = "H" -> "h"
          [] c = "I" -> "i" [] c = "J" -> "j" [] c = "K" -> "k" [] c = "L" -> "l"
          [] c = "M" -> "m" [] c = "N" -> "n" [] c = "O" -> "o" [] c = "P" -> "p"
          [] c = "Q" -> "q" [] c = "R" -> "r" [] c = "S" -> "s" [] c = "T" -> "t"
          [] c = "U" -> "u" [] c = "V" -> "v" [] c = "W" -> "w" [] c = "X" -> "x"
          [] c = "Y" -> "y" [] c = "Z" -> "z" [] OTHER -> c
    IN  [i \in 1..Len(s) |-> LowerChar(s[i])]

\* s.startswith(p)
StartsWith(s, p) == Len(s) >= Len(p) /\ SubSeq(s, 1, Len(p)) = p

\* s.endswith(p)
EndsWith(s, p) == Len(s) >= Len(p) /\ SubSeq(s, Len(s) - Len(p) + 1, Len(s)) = p

\* p in s
Contains(s, p) == \E i \in 1..(Len(s) - Len(p) + 1) : SubSeq(s, i, i + Len(p) - 1) = p

\* s.split(sep) for a one-character sep: always at least one piece
RECURSIVE SplitChar(_, _)
SplitChar(s, sep) ==
    IF \A i \in 1..Len(s) : s[i] # sep THEN <<s>>
    ELSE LET k == CHOOSE i \in 1..Len(s) : s[i] = sep /\ \A j \in 1..(i - 1) : s[j] # sep
         IN  <<SubSeq(s, 1, k - 1)>> \o SplitChar(SubSeq(s, k + 1, Len(s)), sep)

\* sep.join(pieces)
RECURSIVE Join(_, _)
Join(pieces, sep) ==
    IF Len(pieces) = 0 THEN <<>>
    ELSE IF Len(pieces) = 1 THEN pieces[1]
    ELSE pieces[1] \o sep \o Join(Tail(pieces), sep)

\* s.strip()
Strip(s) ==
    IF \A i \in 1..Len(s) : s[i] \in Whitespace THEN <<>>
    ELSE LET a == CHOOSE i \in 1..Len(s) : s[i] \notin Whitespace /\ \A j \in 1..(i - 1) : s[j] \in Whitespace
             b == CHOOSE i \in 1..Len(s) : s[i] \notin Whitespace /\ \A j \in (i + 1)..Len(s) : s[j] \in Whitespace
         IN  SubSeq(s, a, b)

\* s.split(): the maximal runs of non-whitespace characters, in order
RECURSIVE SplitWs(_)
SplitWs(s) ==
    IF \A i \in 1..Len(s) : s[i] \in Whitespace THEN <<>>
    ELSE LET a == CHOOSE i \in 1..Len(s) : s[i] \notin Whitespace /\ \A j \in 1..(i - 1) : s[j] \in Whitespace
             b == CHOOSE i \in a..Len(s) : (\A j \in a..i : s[j] \notin Whitespace)
                                           /\ (i = Len(s) \/ s[i + 1] \in Whitespace)
         IN  <<SubSeq(s, a, b)>> \o SplitWs(SubSeq(s, b + 1, Len(s)))

\* s.replace(old, new) for one-character old and new
ReplaceChar(s, old, new) == [i \in 1..Len(s) |-> IF s[i] = old THEN new ELSE s[i]]

\* all sequences of at most n elements of S
RECURSIVE SeqsUpTo(_, _)
SeqsUpTo(S, n) ==
    IF n = 0 THEN {<<>>}
    ELSE LET shorter == SeqsUpTo(S, n - 1)
         IN  shorter \cup {Append(s, x) : s \in {t \in shorter : Len(t) = n - 1}, x \in S}

\* truthiness of an Optional[str]: neither None nor ""
Truthy(s) == s # None /\ s # <<>>

---------------------------------------------------------------------------
(* String literals of the source *)
\* "---"
S_Minus3 == <<"-","-","-">>
\* "+++"
S_Plus3 == <<"+","+","+">>
\* "Cannot display: file marked as a binary type."
S_CannotDisplay == <<"C","a","n","n","o","t"," ","d","i","s","p","l","a","y",":"," ","f","i","l","e"," ","m","a","r","k","e","d"," ","a","s"," ","a"," ","b","i","n","a","r","y"," ","t","y","p","e",".">>
\* "svn:mime-type = application/octet-stream"
S_MimeOctet == <<"s","v","n",":","m","i","m","e","-","t","y","p","e"," ","="," ","a","p","p","l","i","c","a","t","i","o","n","/","o","c","t","e","t","-","s","t","r","e","a","m">>

---------------------------------------------------------------------------
(* DiffFormatter *)

\* re.search(marker + r'\s+(.+?)\s+\(', line): the match positions <<i, k, e>>:
\* marker at i, then k >= 1 whitespace characters, then the group up to e,
\* then whitespace and "(".
PathMatches(line, marker) ==
    LET n == Len(line)
        len == Len(marker)
        starts == {i \in 1..(n - len + 1) : SubSeq(line, i, i + len - 1) = marker}
        gaps(i) == {k \in 1..(n - i - len + 1) : \A j \in (i + len)..(i + len + k - 1) : line[j] \in Whitespace}
        ends(i, k) == {e \in (i + len + k)..(n - 2) :
                          \E w \in 1..(n - e - 1) :
                              /\ \A j \in (e + 1)..(e + w) : line[j] \in Whitespace
                              /\ line[e + w + 1] = "("}
    IN  UNION {UNION {{<<i, k, e>> : e \in ends(i, k)} : k \in gaps(i)} : i \in starts}

\* path_match.group(1), or None when there is no match: leftmost start, the
\* greedy \s+ as long as it can be, the lazy group as short as it can be
PathMatchGroup(line, marker) ==
    LET ms == PathMatches(line, marker)
    IN  IF ms = {} THEN None
        ELSE LET i == CHOOSE x \in {m[1] : m \in ms} : \A y \in {m[1] : m \in ms} : x <= y
                 ks == {m[2] : m \in {n \in ms : n[1] = i}}
                 k == CHOOSE x \in ks : \A y \in ks : x >= y
                 es == {m[3] : m \in {n \in ms : n[1] = i /\ n[2] = k}}
                 e == CHOOSE x \in es : \A y \in es : x <= y
             IN  SubSeq(line, i + Len(marker) + k, e)

\* the header line written for a "---" or "+++" line (marker), prefix "--- a/" or "+++ b/"
HeaderLine(line, file_path, marker, prefix) ==
    IF Truthy(file_path) THEN prefix \o file_path
    ELSE LET g == PathMatchGroup(line, marker)
         IN  IF g # None THEN prefix \o ReplaceChar(g, "\\", "/") ELSE line

\* the loop of format_to_github_style from line i on
RECURSIVE FormatLoop(_, _, _, _, _)
FormatLoop(lines, i, file_path, in_diff_content, formatted_lines) ==
    IF i > Len(lines) THEN formatted_lines
    ELSE LET line == lines[i]
         IN  IF StartsWith(line, <<"I","n","d","e","x",":">>) \/ StartsWith(line, <<"=","=","=","=","=">>)
               THEN FormatLoop(lines, i + 1, file_path, in_diff_content, formatted_lines)
             ELSE IF StartsWith(line, S_Minus3)
               THEN FormatLoop(lines, i + 1, file_path, TRUE,
                               Append(formatted_lines, HeaderLine(line, file_path, S_Minus3, <<"-","-","-"," ","a","/">>)))
             ELSE IF StartsWith(line, S_Plus3)
               THEN FormatLoop(lines, i + 1, file_path, in_diff_content,
                               Append(formatted_lines, HeaderLine(line, file_path, S_Plus3, <<"+","+","+"," ","b","/">>)))
             ELSE FormatLoop(lines, i + 1, file_path, in_diff_content,
                             IF in_diff_content THEN Append(formatted_lines, line) ELSE formatted_lines)

format_to_github_style(svn_diff, file_path) ==
    IF ~Truthy(svn_diff) \/ Strip(svn_diff) = <<>> THEN <<>>
    ELSE Join(FormatLoop(SplitChar(svn_diff, NL), 1, file_path, FALSE, <<>>), <<NL>>)

\* one line of the loop of extract_diff_stats: what it adds to <<lines_added, lines_deleted>>
StatsOfLine(line) ==
    IF StartsWith(line, <<"+">>) /\ ~StartsWith(line, S_Plus3) THEN <<1, 0>>
    ELSE IF StartsWith(line, <<"-">>) /\ ~StartsWith(line, S_Minus3) THEN <<0, 1>>
    ELSE <<0, 0>>

RECURSIVE StatsLoop(_, _)
StatsLoop(lines, i) ==
    IF i > Len(lines) THEN <<0, 0>>
    ELSE LET here == StatsOfLine(lines[i])
             rest == StatsLoop(lines, i + 1)
         IN  <<here[1] + rest[1], here[2] + rest[2]>>

extract_diff_stats(diff_content) ==
    IF ~Truthy(diff_content) THEN <<0, 0>>
    ELSE StatsLoop(SplitChar(diff_content, NL), 1)

\* the list literal of is_binary_diff: its two string literals stand next to
\* each other without a comma, which Python reads as one concatenated string
binary_indicators == <<S_CannotDisplay \o S_MimeOctet>>

is_binary_diff(diff_content) ==
    IF ~Truthy(diff_content) THEN FALSE
    ELSE \E n \in 1..Len(binary_indicators) :
            Contains(Lower(diff_content), Lower(binary_indicators[n]))

---------------------------------------------------------------------------
(* More string literals of the source, and the texts the svn client prints *)
\* 'diff'
S_diff == <<"d","i","f","f">>
\* '-r'
S_r == <<"-","r">>
\* '--summarize'
S_summarize == <<"-","-","s","u","m","m","a","r","i","z","e">>
\* '--xml'
S_xml == <<"-","-","x","m","l">>
\* 'log'
S_log == <<"l","o","g">>
\* 'github'
S_github == <<"g","i","t","h","u","b">>
\* 'working copy'
S_working_copy == <<"w","o","r","k","i","n","g"," ","c","o","p","y">>
\* 'unknown'
S_unknown == <<"u","n","k","n","o","w","n">>
\* 'A'
S_A == <<"A">>
\* 'D'
S_D == <<"D">>
\* 'M'
S_M == <<"M">>
\* 'R'
S_R == <<"R">>
\* 'Pre-Commit'
S_PreCommit == <<"P","r","e","-","C","o","m","m","i","t">>
\* 'Post-Commit'
S_PostCommit == <<"P","o","s","t","-","C","o","m","m","i","t">>

\* the separator line svn prints under "Index:" (67 "=")
SvnSeparator == [i \in 1..67 |-> "="]
\* "Index: "
T_IndexSp == <<"I","n","d","e","x",":"," ">>
\* "--- "
T_MinusSp == <<"-","-","-"," ">>
\* "+++ "
T_PlusSp == <<"+","+","+"," ">>
\* "\t(revision 41)"
T_Revision41 == <<"\t","(","r","e","v","i","s","i","o","n"," ","4","1",")">>
\* "\t(working copy)"
T_WorkingCopy == <<"\t","(","w","o","r","k","i","n","g"," ","c","o","p","y",")">>

\* what `svn diff` prints for a text file: header, one hunk with the lines of body
SvnDiff(path, body) ==
    Join(<<T_IndexSp \o path, SvnSeparator, T_MinusSp \o path \o T_Revision41,
           T_PlusSp \o path \o T_WorkingCopy, <<"@","@"," ","-","1",",","2"," ","+","1",",","2"," ","@","@">>>> \o body \o << <<>> >>, <<NL>>)

\* what `svn diff` prints for a file with svn:mime-type application/octet-stream
SvnBinaryDiff(path) ==
    Join(<<T_IndexSp \o path, SvnSeparator, S_CannotDisplay, S_MimeOctet, <<>> >>, <<NL>>)

---------------------------------------------------------------------------
(* int() and str() on revision numbers *)

IsDigit(c) == \E d \in 1..10 : Digits[d] = c

\* whether int(s) succeeds for a str s (None raises TypeError, other text ValueError)
IsInt(s) ==
    /\ s # None
    /\ LET t == Strip(s)
           u == IF Len(t) > 0 /\ t[1] \in {"-", "+"} THEN Tail(t) ELSE t
       IN  Len(u) > 0 /\ \A i \in 1..Len(u) : IsDigit(u[i])

RECURSIVE DigitsToNat(_)
DigitsToNat(u) ==
    IF Len(u) = 0 THEN 0
    ELSE 10 * DigitsToNat(SubSeq(u, 1, Len(u) - 1)) + (CHOOSE d \in 0..9 : Digits[d + 1] = u[Len(u)])

\* int(s), where IsInt(s)
ParseInt(s) ==
    LET t == Strip(s)
    IN  IF t[1] = "-" THEN 0 - DigitsToNat(Tail(t))
        ELSE IF t[1] = "+" THEN DigitsToNat(Tail(t))
        ELSE DigitsToNat(t)

RECURSIVE NatToDigits(_)
NatToDigits(n) == IF n < 10 THEN <<Digits[n + 1]>> ELSE Append(NatToDigits(n \div 10), Digits[(n % 10) + 1])

\* str(n)
IntToStr(n) == IF n < 0 THEN <<"-">> \o NatToDigits(0 - n) ELSE NatToDigits(n)

---------------------------------------------------------------------------
(* The svn client and the repository it answers for *)

\* '/wc/sub'
StartDir == <<"/","w","c","/","s","u","b">>
\* 'a.py'
PathA == <<"a",".","p","y">>
\* 'b (1).py'
PathB == <<"b"," ","(","1",")",".","p","y">>
\* '/trunk/a.py'
LogPathA == <<"/","t","r","u","n","k","/","a",".","p","y">>
\* 'svn: E170013: Unable to connect'
StderrFailed == <<"s","v","n",":"," ","E","1","7","0","0","1","3",":"," ","U","n","a","b","l","e"," ","t","o"," ","c","o","n","n","e","c","t">>

FilePaths == {PathA, PathB}

\* subprocess.run raised (executable missing, bad argument): no Result
Raised == [raised |-> TRUE, returncode |-> 1, stdout |-> <<>>, stderr |-> <<>>]
\* the Result of a run that ended with exit code 0 and printed out
Exit0(out) == [raised |-> FALSE, returncode |-> 0, stdout |-> out, stderr |-> <<>>]
\* the Result of a run that ended with exit code 1 and wrote err to stderr
Exit1(out, err) == [raised |-> FALSE, returncode |-> 1, stdout |-> out, stderr |-> err]

\* Result.success
success(result) == result.returncode = 0

\* `svn info --xml` output, as the element tree: the text of each element
\* get_repo_info reads (None: the element is missing)
\* (uuid 'u-1', url 'http://h/r/trunk', relative-url '^/trunk', root 'http://h/r',
\* revision '42', wcroot-abspath '/wc')
InfoXml ==
    [wellformed |-> TRUE,
     uuid |-> <<"u","-","1">>,
     url |-> <<"h","t","t","p",":","/","/","h","/","r","/","t","r","u","n","k">>,
     relative_url |-> <<"^","/","t","r","u","n","k">>,
     root |-> <<"h","t","t","p",":","/","/","h","/","r">>,
     revision |-> <<"4","2">>,
     wcroot_abspath |-> <<"/","w","c">>]
XmlMalformed == [wellformed |-> FALSE, uuid |-> None, url |-> None, relative_url |-> None,
                 root |-> None, revision |-> None, wcroot_abspath |-> None]

\* everything a run of `svn info --xml` can end with
InfoOutcomes ==
    {Raised, [Exit1(<<>>, StderrFailed) EXCEPT !.stdout = XmlMalformed]}
    \cup {[Exit0(<<>>) EXCEPT !.stdout = d] : d \in {InfoXml, [InfoXml EXCEPT !.uuid = None], [InfoXml EXCEPT !.wcroot_abspath = None], XmlMalformed}}

\* the hunk lines of the text diffs the client prints in the runs of the hooks
BodyEdit == <<<<" ","k","e","e","p">>, <<"-","o","l","d">>, <<"+","n","e","w">>>>

\* everything a run of `svn diff [-r ...] <file_path>` can end with
DiffOutcomes(file_path) ==
    {Raised, Exit1(<<>>, StderrFailed),
     Exit0(SvnDiff(file_path, BodyEdit)), Exit0(SvnBinaryDiff(file_path)),
     Exit0(S_CannotDisplay \o S_MimeOctet \o <<NL>>)}

---------------------------------------------------------------------------
(* State *)

VARIABLES
    pc,             \* where the running operation stands ("idle": none is running)
    op,             \* the operation the caller invoked
    args,           \* its arguments
    abspath,        \* self.abspath: the working directory of every svn run
    hook_repo_info, \* repo_info of create_pre_commit_hook / create_post_commit_hook
    repo_info,      \* repo_info of get_working_copy_changes / get_commit_info
    pending,        \* what the running loop has still to visit
    changed_files,  \* changed_files of get_working_copy_changes / get_commit_info
    entry,          \* date_str, author, message of get_commit_info
    info,           \* changes_info / commit_info of the running hook
    payload,        \* payload of the running hook
    trace,          \* every svn run, get_repo_info return and HTTP POST of the run, in order
    result,         \* what the operation returned
    fmt             \* the DiffFormatter call under test

vars == <<pc, op, args, abspath, hook_repo_info, repo_info, pending, changed_files,
          entry, info, payload, trace, result, fmt>>

\* trace entries: an svn run with its arguments, working directory, whether it
\* ended with exit code 0 and what it printed; a return of get_repo_info with
\* whether it returned an SVNRepoInfo; an HTTP POST with what send_webhook made of it
SvnRun(argv, cwd, outcome) ==
    [ev |-> "svn", argv |-> argv, cwd |-> cwd, ok |-> ~outcome.raised /\ success(outcome),
     stdout |-> outcome.stdout]
RepoInfoReturn(value) ==
    [ev |-> "get_repo_info", argv |-> <<>>, cwd |-> <<>>, ok |-> value # NoneObj, stdout |-> <<>>]
HttpPost(event_type, http, ok) ==
    [ev |-> "post", argv |-> <<event_type>>, cwd |-> <<>>, ok |-> ok, stdout |-> <<>>,
     raised |-> http.raised, status_code |-> http.status_code]

---------------------------------------------------------------------------
(* SubversionWebhook: the reads *)

\* SVNFileAction(action_str) raises ValueError unless action_str is a member's value
SVNFileActionValues == {S_A, S_D, S_M, S_R}

\* what get_repo_info returns for the outcome of its `svn info --xml`
get_repo_info(outcome) ==
    IF outcome.raised \/ ~success(outcome) THEN NoneObj
    ELSE LET root == outcome.stdout
         IN  IF ~root.wellformed THEN NoneObj
             ELSE IF \E f \in {root.uuid, root.url, root.relative_url, root.root,
                               root.revision, root.wcroot_abspath} : f = None
               THEN NoneObj
             ELSE [uuid |-> root.uuid, url |-> root.url, relative_url |-> root.relative_url,
                   root_url |-> root.root, revision |-> root.revision]

\* self.abspath after get_repo_info: set once every element is read
AbspathAfter(outcome, before) ==
    IF get_repo_info(outcome) # NoneObj THEN outcome.stdout.wcroot_abspath ELSE before

\* DiffCommand with the first branch lost: a range is never selected
DiffCommand_NoRange(file_path, old_revision, new_revision) ==
    <<S_diff>> \o (IF Truthy(old_revision) THEN <<S_r, old_revision>> ELSE <<>>) \o <<file_path>>

\* diff_cmd of get_file_diff
DiffCommand(file_path, old_revision, new_revision) ==
    <<S_diff>>
    \o (IF Truthy(old_revision) /\ Truthy(new_revision)
          THEN <<S_r, old_revision \o <<":">> \o new_revision>>
        ELSE IF Truthy(old_revision) THEN <<S_r, old_revision>>
        ELSE <<>>)
    \o <<file_path>>

\* get_file_diff returning an empty diff text, not None, when the command fails
get_file_diff_EmptyOnFailure(file_path, format_style, outcome) ==
    IF outcome.raised \/ ~success(outcome)
      THEN [diff_content |-> <<>>, lines_added |-> 0, lines_deleted |-> 0, is_binary |-> FALSE]
    ELSE LET diff_content == outcome.stdout
         IN  IF is_binary_diff(diff_content)
               THEN [diff_content |-> diff_content, lines_added |-> 0, lines_deleted |-> 0,
                     is_binary |-> TRUE]
             ELSE LET stats == extract_diff_stats(diff_content)
                  IN  [diff_content |-> IF format_style = S_github
                                          THEN format_to_github_style(diff_content, file_path)
                                          ELSE diff_content,
                       lines_added |-> stats[1], lines_deleted |-> stats[2], is_binary |-> FALSE]

\* what get_file_diff returns for the outcome of its diff command
get_file_diff(file_path, format_style, outcome) ==
    IF outcome.raised \/ ~success(outcome)
      THEN [diff_content |-> None, lines_added |-> 0, lines_deleted |-> 0, is_binary |-> FALSE]
    ELSE LET diff_content == outcome.stdout
         IN  IF is_binary_diff(diff_content)
               THEN [diff_content |-> diff_content, lines_added |-> 0, lines_deleted |-> 0,
                     is_binary |-> TRUE]
             ELSE LET stats == extract_diff_stats(diff_content)
                  IN  [diff_content |-> IF format_style = S_github
                                          THEN format_to_github_style(diff_content, file_path)
                                          ELSE diff_content,
                       lines_added |-> stats[1], lines_deleted |-> stats[2], is_binary |-> FALSE]

\* SVNFileChange(...)
SVNFileChange(path, action, diff, old_revision, new_revision) ==
    [path |-> path, action |-> action, diff_content |-> diff.diff_content,
     old_revision |-> old_revision, new_revision |-> new_revision,
     lines_added |-> diff.lines_added, lines_deleted |-> diff.lines_deleted,
     is_binary |-> diff.is_binary]

---------------------------------------------------------------------------
(* SVNCommitInfo: dates *)

\* an element of an XML tree that is not there (find() returns None)
Missing == <<"Missing">>

AllDigits(s) == Len(s) > 0 /\ \A i \in 1..Len(s) : IsDigit(s[i])

DaysInMonth(y, m) ==
    IF m = 2 THEN (IF (y % 4 = 0 /\ y % 100 # 0) \/ y % 400 = 0 THEN 29 ELSE 28)
    ELSE IF m \in {4, 6, 9, 11} THEN 30 ELSE 31

\* a field of strptime: one or two digits (exactly `width` digits when width > 0)
\* with a value in lo..hi
FieldOk(s, width, lo, hi) ==
    /\ AllDigits(s)
    /\ IF width > 0 THEN Len(s) = width ELSE Len(s) \in {1, 2}
    /\ DigitsToNat(s) >= lo
    /\ DigitsToNat(s) <= hi

\* datetime.strptime(s, '%Y-%m-%dT%H:%M:%S') or, with fraction, '...%S.%f':
\* the datetime, or NoneObj where strptime raises ValueError
strptime(s, fraction) ==
    LET dt == SplitChar(s, "T")
        d == SplitChar(dt[1], "-")
        t == SplitChar(dt[2], ":")
        sf == SplitChar(t[3], ".")
        sec == IF fraction THEN sf[1] ELSE t[3]
    IN  IF /\ Len(dt) = 2
           /\ Len(d) = 3
           /\ Len(t) = 3
           /\ (fraction => Len(sf) = 2 /\ AllDigits(sf[2]) /\ Len(sf[2]) <= 6)
           /\ FieldOk(d[1], 4, 1, 9999)
           /\ FieldOk(d[2], 0, 1, 12)
           /\ FieldOk(d[3], 0, 1, 31)
           /\ DigitsToNat(d[3]) <= DaysInMonth(DigitsToNat(d[1]), DigitsToNat(d[2]))
           /\ FieldOk(t[1], 0, 0, 23)
           /\ FieldOk(t[2], 0, 0, 59)
           /\ FieldOk(sec, 0, 0, 59)
        THEN [year |-> DigitsToNat(d[1]), month |-> DigitsToNat(d[2]), day |-> DigitsToNat(d[3]),
              hour |-> DigitsToNat(t[1]), minute |-> DigitsToNat(t[2]), second |-> DigitsToNat(sec),
              \* %f reads one to six digits, padded with zeros on the right
              microsecond |-> IF fraction
                                THEN DigitsToNat(sf[2] \o [i \in 1..(6 - Len(sf[2])) |-> "0"])
                                ELSE 0]
        ELSE NoneObj

\* datetime.now(timezone.utc) in the run
NowUtc == [year |-> 2026, month |-> 1, day |-> 2, hour |-> 3, minute |-> 4, second |-> 5,
           microsecond |-> 0]

\* what parse_svn_date returns for a str (for None it raises AttributeError,
\* which it does not catch)
parse_svn_date(date_str) ==
    LET s == IF EndsWith(date_str, <<"Z">>) THEN SubSeq(date_str, 1, Len(date_str) - 1) ELSE date_str
        dt == strptime(s, Contains(s, <<".">>))
    IN  IF dt # NoneObj THEN dt ELSE NowUtc

\* n in decimal, at least `width` digits
Pad(n, width) ==
    LET s == NatToDigits(n)
    IN  [i \in 1..(width - Len(s)) |-> "0"] \o s

\* datetime.isoformat() of a UTC datetime
isoformat(dt) ==
    Pad(dt.year, 4) \o <<"-">> \o Pad(dt.month, 2) \o <<"-">> \o Pad(dt.day, 2) \o <<"T">>
    \o Pad(dt.hour, 2) \o <<":">> \o Pad(dt.minute, 2) \o <<":">> \o Pad(dt.second, 2)
    \o (IF dt.microsecond # 0 THEN <<".">> \o Pad(dt.microsecond, 6) ELSE <<>>)
    \o <<"+","0","0",":","0","0">>

---------------------------------------------------------------------------
(* `svn log -v -r <rev> --xml` output, as the element tree *)

\* '2025-08-18T03:23:30.945026Z'
DateFraction == <<"2","0","2","5","-","0","8","-","1","8","T","0","3",":","2","3",":","3","0",".","9","4","5","0","2","6","Z">>
\* 'bob'
AuthorBob == <<"b","o","b">>
\* 'fix a\nmore'
MsgFix == <<"f","i","x"," ","a","\n","m","o","r","e">>
\* '42'
Rev42 == <<"4","2">>
\* '41'
Rev41 == <<"4","1">>
\* 'wip'
S_msg == <<"w","i","p">>

\* <path action=...>text</path>
PathElement(action, text) == [action |-> action, text |-> text]

\* <logentry>: the text of <date>, <author>, <msg> (Missing: no such element;
\* None: an empty element) and the <path> elements of <paths>, if there is one
LogEntry(date, author, msg, has_paths, paths) ==
    [date |-> date, author |-> author, msg |-> msg, has_paths |-> has_paths, paths |-> paths]

LogXml(logentry) == [wellformed |-> TRUE, logentry |-> logentry]
LogXmlMalformed == [wellformed |-> FALSE, logentry |-> NoneObj]

LogEntries ==
    {LogEntry(DateFraction, AuthorBob, MsgFix, TRUE, ps) : ps \in SeqsUpTo(
            {PathElement(S_A, LogPathA), PathElement(S_D, LogPathA),
             \* '/trunk/b (1).py'
             PathElement(S_M, <<"/","t","r","u","n","k","/","b"," ","(","1",")",".","p","y">>),
             PathElement(S_R, LogPathA),
             \* an action code outside SVNFileAction
             PathElement(<<"X">>, LogPathA)}, MaxLogPaths)}
    \cup {LogEntry(DateFraction, AuthorBob, MsgFix, TRUE, <<e>>) :
            e \in {PathElement(S_M, None), PathElement(Missing, LogPathA)}}
    \cup {LogEntry(DateFraction, AuthorBob, MsgFix, FALSE, <<>>)}
    \cup {LogEntry(h[1], h[2], h[3], TRUE, <<PathElement(S_M, LogPathA)>>) :
            h \in {<<<<"y","e","s","t","e","r","d","a","y">>, AuthorBob, MsgFix>>, <<Missing, AuthorBob, MsgFix>>,
                   <<None, AuthorBob, MsgFix>>, <<DateFraction, Missing, MsgFix>>,
                   <<DateFraction, None, MsgFix>>, <<DateFraction, AuthorBob, Missing>>,
                   <<DateFraction, AuthorBob, None>>}}

\* everything a run of `svn log -v -r <rev> --xml` can end with
LogOutcomes ==
    {Raised, [Exit1(<<>>, StderrFailed) EXCEPT !.stdout = LogXmlMalformed]}
    \cup {[Exit0(<<>>) EXCEPT !.stdout = d] :
            d \in {LogXmlMalformed, LogXml(NoneObj)} \cup {LogXml(e) : e \in LogEntries}}

---------------------------------------------------------------------------
(* SubversionWebhook: the payload *)

\* 'svn_commit'
S_svn_commit == <<"s","v","n","_","c","o","m","m","i","t">>
\* 'trunk'
S_trunk == <<"t","r","u","n","k">>
\* '?r='
S_QueryR == <<"?","r","=">>
\* '://'
S_SchemeSep == <<":","/","/">>

\* {}
EmptyDict == [empty |-> TRUE]

\* s.strip(c) for one character c
StripOf(s, c) ==
    IF \A i \in 1..Len(s) : s[i] = c THEN <<>>
    ELSE LET a == CHOOSE i \in 1..Len(s) : s[i] # c /\ \A j \in 1..(i - 1) : s[j] = c
             b == CHOOSE i \in 1..Len(s) : s[i] # c /\ \A j \in (i + 1)..Len(s) : s[j] = c
         IN  SubSeq(s, a, b)

\* the first index from `from` on at which s holds a character of cs, or Len(s) + 1
FirstOf(s, from, cs) ==
    IF \A i \in from..Len(s) : s[i] \notin cs THEN Len(s) + 1
    ELSE CHOOSE i \in from..Len(s) : s[i] \in cs /\ \A j \in from..(i - 1) : s[j] \notin cs

\* urlparse(url): netloc and path of scheme://netloc/path?query#fragment
urlparse(url) ==
    IF ~Contains(url, S_SchemeSep)
      THEN [netloc |-> <<>>, path |-> SubSeq(url, 1, FirstOf(url, 1, {"?", "#"}) - 1)]
    ELSE LET c == CHOOSE i \in 1..Len(url) :
                     /\ SubSeq(url, i, i + 2) = S_SchemeSep
                     /\ \A j \in 1..(i - 1) : SubSeq(url, j, j + 2) # S_SchemeSep
             n == c + 3
             p == FirstOf(url, n, {"/", "?", "#"})
             q == FirstOf(url, p, {"?", "#"})
         IN  [netloc |-> SubSeq(url, n, p - 1), path |-> SubSeq(url, p, q - 1)]

_extract_repo_name(repo_url) ==
    LET parsed == urlparse(repo_url)
        path_parts == SplitChar(StripOf(parsed.path, "/"), "/")
    IN  IF path_parts[Len(path_parts)] # <<>> THEN path_parts[Len(path_parts)]
        ELSE ReplaceChar(parsed.netloc, ".", "_")

\* what the files of the auth directory give _extract_svn_author: listing or
\* reading them raises, or the username pattern matches a name, or it does not
AuthRaises == [raised |-> TRUE, username |-> None]
AuthUsername(name) == [raised |-> FALSE, username |-> name]
AuthOutcomes == {AuthRaises, AuthUsername(AuthorBob), AuthUsername(None)}

\* _extract_svn_author: the function ends without a return when nothing matches
_extract_svn_author(auth) ==
    IF auth.raised THEN S_unknown
    ELSE IF auth.username # None THEN Strip(auth.username)
    ELSE None

\* one entry of the changes array
ChangeEntry(file_change) ==
    [diff |-> IF Truthy(file_change.diff_content) THEN file_change.diff_content ELSE <<>>,
     new_path |-> file_change.path, old_path |-> file_change.path,
     additions |-> file_change.lines_added, deletions |-> file_change.lines_deleted,
     action |-> file_change.action, is_binary |-> file_change.is_binary,
     old_revision |-> file_change.old_revision, new_revision |-> file_change.new_revision]

\* SVNCommitInfo.iso_date
iso_date(commit_info) == isoformat(commit_info.date)

\* BuildPayload with the whole commit message as the post-commit title
BuildPayload_WholeMessageTitle(event_type, changes_data, commit_info, commit_message, repo, auth) ==
    LET repo_name == _extract_repo_name(repo.url)
        has_commit == commit_info # NoneObj
        changes == [i \in 1..Len(changes_data) |-> ChangeEntry(changes_data[i])]
        commits == IF has_commit
                     THEN <<[id |-> commit_info.revision, message |-> commit_info.message,
                             author |-> commit_info.author, timestamp |-> iso_date(commit_info),
                             created_at |-> iso_date(commit_info),
                             url |-> repo.url \o S_QueryR \o commit_info.revision]>>
                     ELSE <<>>
        title == IF event_type = S_PreCommit THEN <<"P","r","e","-","C","o","m","m","i","t"," ","v","a","l","i","d","a","t","i","o","n">>
                 ELSE IF has_commit /\ Truthy(commit_info.message)
                   THEN commit_info.message
                 ELSE <<"S","V","N"," ","c","o","m","m","i","t">>
        description == IF event_type = S_PreCommit THEN <<"S","V","N"," ","p","r","e","-","c","o","m","m","i","t"," ","h","o","o","k"," ","v","a","l","i","d","a","t","i","o","n">>
                       ELSE IF has_commit THEN commit_info.message
                       ELSE <<"S","V","N"," ","p","o","s","t","-","c","o","m","m","i","t"," ","n","o","t","i","f","i","c","a","t","i","o","n">>
    IN  [event_type |-> event_type,
         object_kind |-> S_svn_commit,
         repository |-> [uuid |-> repo.uuid, url |-> repo.url, name |-> repo_name,
                         description |-> <<"S","V","N"," ","R","e","p","o","s","i","t","o","r","y",":"," ">> \o repo_name, homepage |-> repo.url],
         object_attributes |->
            [revision |-> IF has_commit THEN commit_info.revision ELSE repo.revision,
             message |-> IF Truthy(commit_message) THEN commit_message ELSE <<>>,
             author |-> IF has_commit THEN commit_info.author ELSE _extract_svn_author(auth),
             created_at |-> IF has_commit THEN iso_date(commit_info) ELSE isoformat(NowUtc),
             updated_at |-> IF has_commit THEN iso_date(commit_info) ELSE None,
             url |-> IF has_commit THEN repo.url \o S_QueryR \o commit_info.revision ELSE repo.url,
             action |-> event_type,
             target_branch |-> S_trunk,
             source_branch |-> S_trunk,
             state |-> IF event_type = S_PreCommit THEN <<"o","p","e","n","e","d">> ELSE <<"m","e","r","g","e","d">>,
             title |-> title,
             description |-> description],
         changes |-> changes,
         commits |-> commits,
         svn_info |-> [repository_uuid |-> repo.uuid, repository_url |-> repo.url,
                       repository_root |-> repo.root_url,
                       revision |-> IF has_commit THEN commit_info.revision ELSE None,
                       event_type |-> event_type]]

\* _build_svn_webhook_payload from line 918 on (repo_info is there); auth is
\* what _extract_svn_author finds if it is called
BuildPayload(event_type, changes_data, commit_info, commit_message, repo, auth) ==
    LET repo_name == _extract_repo_name(repo.url)
        has_commit == commit_info # NoneObj
        changes == [i \in 1..Len(changes_data) |-> ChangeEntry(changes_data[i])]
        commits == IF has_commit
                     THEN <<[id |-> commit_info.revision, message |-> commit_info.message,
                             author |-> commit_info.author, timestamp |-> iso_date(commit_info),
                             created_at |-> iso_date(commit_info),
                             url |-> repo.url \o S_QueryR \o commit_info.revision]>>
                     ELSE <<>>
        title == IF event_type = S_PreCommit THEN <<"P","r","e","-","C","o","m","m","i","t"," ","v","a","l","i","d","a","t","i","o","n">>
                 ELSE IF has_commit /\ Truthy(commit_info.message)
                   THEN SplitChar(commit_info.message, NL)[1]
                 ELSE <<"S","V","N"," ","c","o","m","m","i","t">>
        description == IF event_type = S_PreCommit THEN <<"S","V","N"," ","p","r","e","-","c","o","m","m","i","t"," ","h","o","o","k"," ","v","a","l","i","d","a","t","i","o","n">>
                       ELSE IF has_commit THEN commit_info.message
                       ELSE <<"S","V","N"," ","p","o","s","t","-","c","o","m","m","i","t"," ","n","o","t","i","f","i","c","a","t","i","o","n">>
    IN  [event_type |-> event_type,
         object_kind |-> S_svn_commit,
         repository |-> [uuid |-> repo.uuid, url |-> repo.url, name |-> repo_name,
                         description |-> <<"S","V","N"," ","R","e","p","o","s","i","t","o","r","y",":"," ">> \o repo_name, homepage |-> repo.url],
         object_attributes |->
            [revision |-> IF has_commit THEN commit_info.revision ELSE repo.revision,
             message |-> IF Truthy(commit_message) THEN commit_message ELSE <<>>,
             author |-> IF has_commit THEN commit_info.author ELSE _extract_svn_author(auth),
             created_at |-> IF has_commit THEN iso_date(commit_info) ELSE isoformat(NowUtc),
             updated_at |-> IF has_commit THEN iso_date(commit_info) ELSE None,
             url |-> IF has_commit THEN repo.url \o S_QueryR \o commit_info.revision ELSE repo.url,
             action |-> event_type,
             target_branch |-> S_trunk,
             source_branch |-> S_trunk,
             state |-> IF event_type = S_PreCommit THEN <<"o","p","e","n","e","d">> ELSE <<"m","e","r","g","e","d">>,
             title |-> title,
             description |-> description],
         changes |-> changes,
         commits |-> commits,
         svn_info |-> [repository_uuid |-> repo.uuid, repository_url |-> repo.url,
                       repository_root |-> repo.root_url,
                       revision |-> IF has_commit THEN commit_info.revision ELSE None,
                       event_type |-> event_type]]

\* _build_svn_webhook_payload without the return of {}: a payload is built
\* around the missing repository
_build_svn_webhook_payload_NoEmpty(event_type, changes_data, commit_info, commit_message, given, outcome, auth) ==
    LET repo == IF given # NoneObj THEN given ELSE get_repo_info(outcome)
    IN  IF repo = NoneObj THEN [event_type |-> event_type, object_kind |-> S_svn_commit]
        ELSE BuildPayload(event_type, changes_data, commit_info, commit_message, repo, auth)

\* _build_svn_webhook_payload: `given` is the repo_info argument, outcome what
\* the `svn info --xml` of line 913 ends with if it is run
_build_svn_webhook_payload(event_type, changes_data, commit_info, commit_message, given, outcome, auth) ==
    LET repo == IF given # NoneObj THEN given ELSE get_repo_info(outcome)
    IN  IF repo = NoneObj THEN EmptyDict
        ELSE BuildPayload(event_type, changes_data, commit_info, commit_message, repo, auth)

HttpResponse(status_code) == [raised |-> FALSE, status_code |-> status_code]
HttpOutcomes == {[raised |-> TRUE, status_code |-> 0], HttpResponse(200), HttpResponse(204), HttpResponse(500)}

\* what send_webhook returns
send_webhook(http) == ~http.raised /\ http.status_code \in {200, 201, 202}

---------------------------------------------------------------------------
(* What the callers pass, and what the client prints for the working copy *)

\* 'MM'
S_MM == <<"M","M">>

\* one line of `svn diff --summarize`: the action code, blanks, the path
SummaryLine(code, path) == code \o <<" "," "," "," "," "," "," ">> \o path

\* the output made of these lines, each ended by a newline
RECURSIVE SummaryText(_)
SummaryText(lines) == IF Len(lines) = 0 THEN <<>> ELSE lines[1] \o <<NL>> \o SummaryText(Tail(lines))

\* everything a run of `svn diff --summarize` can end with
SummarizeOutcomes ==
    {Raised, Exit1(<<>>, StderrFailed)}
    \cup {Exit0(SummaryText(ls)) : ls \in SeqsUpTo(
            {SummaryLine(S_M, PathA), SummaryLine(S_A, PathB), SummaryLine(S_MM, PathA), <<>>,
             \* 'D       c  d.py': a file name with two blanks in a row
             SummaryLine(S_D, <<"c"," "," ","d",".","p","y">>)},
            MaxSummaryLines)}

\* everything a run of `svn diff --summarize <file_path>` can end with
FileSummarizeOutcomes(file_path) ==
    {Raised,
     \* "svn: E155010: The node 'x' was not found."
     Exit1(<<>>, <<"s","v","n",":"," ","E","1","5","5","0","1","0",":"," ","T","h","e"," ","n","o","d","e"," ","'","x","'"," ","w","a","s"," ","n","o","t"," ","f","o","u","n","d",".">>),
     Exit0(<<>>),
     Exit0(SummaryText(<<SummaryLine(S_M, file_path)>>)),
     Exit0(SummaryText(<<SummaryLine(S_MM, file_path)>>))}

\* the diff outcomes the loops over several files are answered with
LoopDiffOutcomes(file_path) ==
    {Exit1(<<>>, StderrFailed), Exit0(SvnDiff(file_path, BodyEdit)), Exit0(SvnBinaryDiff(file_path))}

\* commit_files of the callers: None, or a list of paths
CommitFilesArgs == {NoneList} \cup SeqsUpTo(FilePaths, MaxFiles)

\* revision of the callers
RevisionArgs == {None, Rev42, <<"H","E","A","D">>}

\* old_revision / new_revision of the callers of get_file_diff
RevisionBounds == {None, Rev41, Rev42}

---------------------------------------------------------------------------
(* Initial state, calls and returns *)

NoResult == [kind |-> "none"]
Returned(value) == [kind |-> "value", value |-> value]

MainInit ==
    /\ pc = "idle"
    /\ op = "none"
    /\ args = NoneObj
    /\ abspath = StartDir
    /\ hook_repo_info = NoneObj
    /\ repo_info = NoneObj
    /\ pending = <<>>
    /\ changed_files = <<>>
    /\ entry = NoneObj
    /\ info = NoneObj
    /\ payload = EmptyDict
    /\ trace = <<>>
    /\ result = NoResult

Init == MainInit /\ fmt = [op |-> "idle"]

\* the frame of the hook around the running read
hook_vars == <<hook_repo_info, payload>>
\* the locals of the running read
read_vars == <<repo_info, pending, changed_files, entry>>

\* the svn run of get_repo_info and its return, as trace entries
InfoTrace(outcome) ==
    <<SvnRun(<<<<"i","n","f","o">>, S_xml>>, abspath, outcome), RepoInfoReturn(get_repo_info(outcome))>>

\* get_working_copy_changes returns value: to the caller, or into
\* create_pre_commit_hook (line 1037)
WccReturn(value) ==
    IF op = "get_working_copy_changes"
      THEN pc' = "done" /\ result' = Returned(value) /\ info' = info
      ELSE pc' = "pre_changes" /\ result' = result /\ info' = value

\* get_commit_info returns value: to the caller, or into create_post_commit_hook (line 1104)
CiReturn(value) ==
    IF op = "get_commit_info"
      THEN pc' = "done" /\ result' = Returned(value) /\ info' = info
      ELSE pc' = "post_commit_info" /\ result' = result /\ info' = value

\* the revision get_commit_info was called with
CiRevision == IF op = "get_commit_info" THEN args.revision ELSE args.target_revision

---------------------------------------------------------------------------
(* get_file_diff, called directly *)

GetFileDiff ==
    /\ pc = "idle"
    /\ \E file_path \in FilePaths, old_revision \in RevisionBounds, new_revision \in RevisionBounds,
          format_style \in {S_github, <<"r","a","w">>} :
        \E outcome \in DiffOutcomes(file_path) :
            /\ op' = "get_file_diff"
            /\ args' = [file_path |-> file_path, old_revision |-> old_revision,
                        new_revision |-> new_revision, format_style |-> format_style]
            /\ trace' = <<SvnRun(DiffCommand(file_path, old_revision, new_revision), abspath, outcome)>>
            /\ result' = Returned(get_file_diff(file_path, format_style, outcome))
            /\ pc' = "done"
    /\ UNCHANGED <<abspath, hook_vars, read_vars, info, fmt>>

---------------------------------------------------------------------------
(* get_working_copy_changes *)

CallGetWorkingCopyChanges ==
    /\ pc = "idle"
    /\ \E commit_files \in CommitFilesArgs :
        args' = [commit_files |-> commit_files, format_style |-> S_github]
    /\ op' = "get_working_copy_changes"
    /\ pc' = "wcc_repo_info"
    /\ UNCHANGED <<abspath, hook_vars, read_vars, info, trace, result, fmt>>

\* lines 584-606: get_repo_info, then the branch on commit_files
WccGetRepoInfo ==
    /\ pc = "wcc_repo_info"
    /\ \E outcome \in InfoOutcomes :
        LET value == get_repo_info(outcome)
        IN  /\ trace' = trace \o InfoTrace(outcome)
            /\ abspath' = AbspathAfter(outcome, abspath)
            /\ repo_info' = value
            /\ IF value = NoneObj
                 THEN WccReturn(NoneObj) /\ pending' = pending
                 ELSE /\ pc' = IF args.commit_files # NoneList THEN "wcc_files" ELSE "wcc_summarize"
                      /\ pending' = IF args.commit_files # NoneList THEN args.commit_files ELSE <<>>
                      /\ UNCHANGED <<result, info>>
    /\ changed_files' = <<>>
    /\ UNCHANGED <<op, args, hook_vars, entry, fmt>>

\* _process_single_file_change treating a file whose summarized diff failed as Added
_process_single_file_change_AddsUntracked(file_path, repo, format_style, summarized, diffed) ==
    IF summarized.raised \/ ~success(summarized)
      THEN SVNFileChange(file_path, S_A, get_file_diff(file_path, format_style, diffed),
                         repo.revision, S_working_copy)
    ELSE LET stdout_lines == SplitChar(Strip(summarized.stdout), NL)
             parts == SplitWs(stdout_lines[1])
         IN  IF Strip(stdout_lines[1]) = <<>> THEN NoneObj
             ELSE IF Len(parts) < 2 THEN NoneObj
             ELSE IF parts[1] \notin SVNFileActionValues THEN NoneObj
             ELSE SVNFileChange(file_path, parts[1], get_file_diff(file_path, format_style, diffed),
                                repo.revision, S_working_copy)

\* what _process_single_file_change returns for the outcomes of its two svn
\* runs (lines 661-724): an SVNFileChange or None
_process_single_file_change(file_path, repo, format_style, summarized, diffed) ==
    IF summarized.raised \/ ~success(summarized) THEN NoneObj
    ELSE LET stdout_lines == SplitChar(Strip(summarized.stdout), NL)
             parts == SplitWs(stdout_lines[1])
         IN  IF Strip(stdout_lines[1]) = <<>> THEN NoneObj
             ELSE IF Len(parts) < 2 THEN NoneObj
             ELSE IF parts[1] \notin SVNFileActionValues THEN NoneObj
             ELSE SVNFileChange(file_path, parts[1], get_file_diff(file_path, format_style, diffed),
                                repo.revision, S_working_copy)

\* whether _process_single_file_change gets as far as get_file_diff (line 707)
SingleFileReachesDiff(summarized) ==
    /\ ~summarized.raised
    /\ success(summarized)
    /\ LET first == SplitChar(Strip(summarized.stdout), NL)[1]
       IN  Len(SplitWs(first)) >= 2 /\ SplitWs(first)[1] \in SVNFileActionValues

\* lines 597-603: one turn of the loop over commit_files
WccFile ==
    /\ pc = "wcc_files"
    /\ pending # <<>>
    /\ LET file_path == Head(pending)
       IN  \E summarized \in FileSummarizeOutcomes(file_path) :
             \E diffed \in (IF SingleFileReachesDiff(summarized)
                              THEN LoopDiffOutcomes(file_path) ELSE {Raised}) :
               LET file_change == _process_single_file_change(
                                      file_path, repo_info, args.format_style, summarized, diffed)
               IN  /\ trace' = trace
                        \o <<SvnRun(<<S_diff, S_summarize, file_path>>, abspath, summarized)>>
                        \o (IF SingleFileReachesDiff(summarized)
                              THEN <<SvnRun(DiffCommand(file_path, None, None), abspath, diffed)>>
                              ELSE <<>>)
                   /\ changed_files' = IF file_change # NoneObj
                                         THEN Append(changed_files, file_change) ELSE changed_files
    /\ pending' = Tail(pending)
    /\ UNCHANGED <<pc, op, args, abspath, hook_vars, repo_info, entry, info, result, fmt>>

\* lines 607-613: the summarized diff of the whole working copy
WccSummarize ==
    /\ pc = "wcc_summarize"
    /\ \E outcome \in SummarizeOutcomes :
        /\ trace' = Append(trace, SvnRun(<<S_diff, S_summarize>>, abspath, outcome))
        /\ IF outcome.raised \/ ~success(outcome)
             THEN WccReturn(NoneObj) /\ pending' = pending
             ELSE /\ pc' = "wcc_lines"
                  /\ pending' = SplitChar(Strip(outcome.stdout), NL)
                  /\ UNCHANGED <<result, info>>
    /\ UNCHANGED <<op, args, abspath, hook_vars, repo_info, changed_files, entry, fmt>>

\* SkipsLine without the check of the action code
SkipsLine_KeepsUnknown(line) ==
    \/ Strip(line) = <<>>
    \/ Len(SplitWs(line)) < 2

\* whether the loop over the summary lines skips this line (lines 614-630)
SkipsLine(line) ==
    \/ Strip(line) = <<>>
    \/ Len(SplitWs(line)) < 2
    \/ SplitWs(line)[1] \notin SVNFileActionValues

\* file_path of a summary line (line 623)
LinePath(line) == Join(Tail(SplitWs(line)), <<" ">>)

\* lines 613-649: one turn of the loop over the summary lines
WccLine ==
    /\ pc = "wcc_lines"
    /\ pending # <<>>
    /\ LET line == Head(pending)
       IN  IF SkipsLine(line)
             THEN UNCHANGED <<trace, changed_files>>
             ELSE \E diffed \in LoopDiffOutcomes(LinePath(line)) :
                    /\ trace' = Append(trace, SvnRun(DiffCommand(LinePath(line), None, None), abspath, diffed))
                    /\ changed_files' = Append(changed_files,
                          SVNFileChange(LinePath(line), SplitWs(line)[1],
                                        get_file_diff(LinePath(line), args.format_style, diffed),
                                        repo_info.revision, S_working_copy))
    /\ pending' = Tail(pending)
    /\ UNCHANGED <<pc, op, args, abspath, hook_vars, repo_info, entry, info, result, fmt>>

\* lines 651-655: after either loop
WccReturnChanges ==
    /\ pc \in {"wcc_files", "wcc_lines"}
    /\ pending = <<>>
    /\ WccReturn([changed_files |-> changed_files, repo_uuid |-> repo_info.uuid,
                  base_revision |-> repo_info.revision])
    /\ UNCHANGED <<op, args, abspath, hook_vars, read_vars, trace, fmt>>

---------------------------------------------------------------------------
(* get_commit_info *)

CallGetCommitInfo ==
    /\ pc = "idle"
    /\ \E revision \in RevisionArgs :
        args' = [revision |-> revision, format_style |-> S_github]
    /\ op' = "get_commit_info"
    /\ pc' = "ci_repo_info"
    /\ UNCHANGED <<abspath, hook_vars, read_vars, info, trace, result, fmt>>

\* lines 738-739: repo_info may be None here, repo_uuid is then ''
CiGetRepoInfo ==
    /\ pc = "ci_repo_info"
    /\ \E outcome \in InfoOutcomes :
        /\ trace' = trace \o InfoTrace(outcome)
        /\ abspath' = AbspathAfter(outcome, abspath)
        /\ repo_info' = get_repo_info(outcome)
    /\ pc' = "ci_log"
    /\ pending' = <<>>
    /\ changed_files' = <<>>
    /\ UNCHANGED <<op, args, hook_vars, entry, info, result, fmt>>

\* whether lines 748-757 get through the log output without an exception and
\* with a log entry
LogEntryRead(outcome) ==
    /\ ~outcome.raised
    /\ success(outcome)
    /\ outcome.stdout.wellformed
    /\ outcome.stdout.logentry # NoneObj
    /\ outcome.stdout.logentry.date \notin {Missing, None}

\* date_str, author, message of lines 755-757
EntryFields(logentry) ==
    [date |-> parse_svn_date(logentry.date),
     author |-> IF logentry.author # Missing THEN logentry.author ELSE S_unknown,
     message |-> IF logentry.msg # Missing THEN logentry.msg ELSE <<>>]

\* lines 742-762: the log command and the head of the log entry
CiLog ==
    /\ pc = "ci_log"
    /\ IF ~Truthy(CiRevision) /\ repo_info = NoneObj
         THEN \* repo_info.revision raises AttributeError: no command is run
              CiReturn(NoneObj) /\ UNCHANGED <<trace, entry, pending>>
         ELSE \E outcome \in LogOutcomes :
                /\ trace' = Append(trace,
                      SvnRun(<<S_log, <<"-","v">>, S_r,
                               IF Truthy(CiRevision) THEN CiRevision ELSE repo_info.revision,
                               S_xml>>, abspath, outcome))
                /\ IF LogEntryRead(outcome)
                     THEN /\ entry' = EntryFields(outcome.stdout.logentry)
                          /\ pending' = IF outcome.stdout.logentry.has_paths
                                          THEN outcome.stdout.logentry.paths ELSE <<>>
                          /\ pc' = "ci_paths"
                          /\ UNCHANGED <<result, info>>
                     ELSE CiReturn(NoneObj) /\ UNCHANGED <<entry, pending>>
    /\ UNCHANGED <<op, args, abspath, hook_vars, repo_info, changed_files, fmt>>

\* whether the loop over the paths skips this <path> (lines 764, 769-773)
SkipsPath(path) ==
    \/ ~Truthy(path.text)
    \/ (path.action # Missing /\ path.action \notin SVNFileActionValues)

\* whether the turn for this <path> ends in an exception before any diff is
\* run: no action attribute (765), int(revision) (776), repo_info.root_url (781)
PathRaises(path, revision, repo) ==
    /\ Truthy(path.text)
    /\ \/ path.action = Missing
       \/ (path.action # S_A /\ ~IsInt(revision))
       \/ repo = NoneObj

\* OldRevision without the step back to the revision before
OldRevision_SameRevision(action, revision) ==
    IF action # S_A THEN IntToStr(ParseInt(revision)) ELSE None

\* old_revision (line 776)
OldRevision(action, revision) == IF action # S_A THEN IntToStr(ParseInt(revision) - 1) ELSE None

\* new_revision (line 777)
NewRevision(action, revision) == IF action # S_D THEN revision ELSE None

\* lines 763-799: one turn of the loop over the paths of the log entry
CiPath ==
    /\ pc = "ci_paths"
    /\ pending # <<>>
    /\ LET path == Head(pending)
           revision == CiRevision
       IN  IF SkipsPath(path)
             THEN /\ pending' = Tail(pending)
                  /\ UNCHANGED <<pc, result, info, trace, changed_files>>
           ELSE IF PathRaises(path, revision, repo_info)
             THEN CiReturn(NoneObj) /\ UNCHANGED <<pending, trace, changed_files>>
           ELSE LET old_revision == OldRevision(path.action, revision)
                    new_revision == NewRevision(path.action, revision)
                    url == repo_info.root_url \o path.text
                IN  \E diffed \in LoopDiffOutcomes(url) :
                      /\ trace' = Append(trace,
                            SvnRun(DiffCommand(url, old_revision, new_revision), abspath, diffed))
                      /\ changed_files' = Append(changed_files,
                            SVNFileChange(path.text, path.action,
                                          get_file_diff(url, args.format_style, diffed),
                                          old_revision, new_revision))
                      /\ pending' = Tail(pending)
                      /\ UNCHANGED <<pc, result, info>>
    /\ UNCHANGED <<op, args, abspath, hook_vars, repo_info, entry, fmt>>

\* SVNCommitInfo(...) of lines 801-808: None where the model's validation
\* raises (revision, author and message must be str)
SVNCommitInfo(revision, fields, files, repo) ==
    IF revision = None \/ fields.author = None \/ fields.message = None THEN NoneObj
    ELSE [revision |-> revision, author |-> fields.author, date |-> fields.date,
          message |-> fields.message, changed_files |-> files,
          repo_uuid |-> IF repo # NoneObj THEN repo.uuid ELSE <<>>]

\* lines 801-815: after the loop
CiReturnCommitInfo ==
    /\ pc = "ci_paths"
    /\ pending = <<>>
    /\ CiReturn(SVNCommitInfo(CiRevision, entry, changed_files, repo_info))
    /\ UNCHANGED <<op, args, abspath, hook_vars, read_vars, trace, fmt>>

---------------------------------------------------------------------------
(* _build_svn_webhook_payload, called directly *)

\* lines 912-1015 for a call that passes neither changes nor a commit
BuildSvnWebhookPayload ==
    /\ pc = "idle"
    /\ \E event_type \in {S_PreCommit, S_PostCommit}, commit_message \in {None, S_msg},
          given \in {NoneObj, (get_repo_info([Exit0(<<>>) EXCEPT !.stdout = InfoXml]))} :
        \E outcome \in (IF given = NoneObj THEN InfoOutcomes ELSE {Raised}),
           auth \in AuthOutcomes :
          /\ args' = [event_type |-> event_type, commit_message |-> commit_message,
                      repo_info |-> given]
          /\ trace' = IF given = NoneObj THEN InfoTrace(outcome) ELSE <<>>
          /\ abspath' = IF given = NoneObj THEN AbspathAfter(outcome, abspath) ELSE abspath
          /\ result' = Returned(_build_svn_webhook_payload(
                                    event_type, <<>>, NoneObj, commit_message, given, outcome, auth))
    /\ op' = "_build_svn_webhook_payload"
    /\ pc' = "done"
    /\ UNCHANGED <<hook_vars, read_vars, info, fmt>>

---------------------------------------------------------------------------
(* create_pre_commit_hook *)

CallCreatePreCommitHook ==
    /\ pc = "idle"
    /\ \E commit_files \in CommitFilesArgs, commit_message \in {None, S_msg} :
        args' = [commit_files |-> commit_files, format_style |-> S_github,
                 commit_message |-> commit_message]
    /\ op' = "create_pre_commit_hook"
    /\ pc' = "wcc_repo_info"
    /\ UNCHANGED <<abspath, hook_vars, read_vars, info, trace, result, fmt>>

\* lines 1038-1050: the checks of changes_info, then get_repo_info
PreGetRepoInfo ==
    /\ pc = "pre_changes"
    /\ IF info = NoneObj
         THEN /\ result' = Returned(FALSE)
              /\ pc' = "done"
              /\ UNCHANGED <<trace, abspath, hook_repo_info>>
       ELSE IF info.changed_files = <<>>
         THEN /\ result' = Returned(TRUE)
              /\ pc' = "done"
              /\ UNCHANGED <<trace, abspath, hook_repo_info>>
       ELSE \* the working copy may have been updated since the `svn info` of
            \* get_working_copy_changes: this one may report a later revision
            \E outcome \in InfoOutcomes
                  \cup {[Exit0(<<>>) EXCEPT !.stdout = [InfoXml EXCEPT !.revision = <<"4","3">>]]} :
              /\ trace' = trace \o InfoTrace(outcome)
              /\ abspath' = AbspathAfter(outcome, abspath)
              /\ hook_repo_info' = get_repo_info(outcome)
              /\ IF get_repo_info(outcome) = NoneObj
                   THEN result' = Returned(FALSE) /\ pc' = "done"
                   ELSE result' = result /\ pc' = "pre_build"
    /\ UNCHANGED <<op, args, read_vars, info, payload, fmt>>

\* lines 1053-1063: the payload, and the check that it is not empty
PreBuildPayload ==
    /\ pc = "pre_build"
    /\ \E auth \in AuthOutcomes :
        payload' = _build_svn_webhook_payload(S_PreCommit, info.changed_files, NoneObj,
                                              args.commit_message, hook_repo_info, Raised, auth)
    /\ IF payload' = EmptyDict
         THEN result' = Returned(FALSE) /\ pc' = "done"
         ELSE result' = result /\ pc' = "pre_send"
    /\ UNCHANGED <<op, args, abspath, hook_repo_info, read_vars, info, trace, fmt>>

\* PreSendWebhook with a second attempt after a failed dispatch
PreSendWebhook_RetriesOnce ==
    /\ pc = "pre_send"
    /\ \E http \in HttpOutcomes, again \in HttpOutcomes :
        IF send_webhook(http)
          THEN /\ trace' = Append(trace, HttpPost(S_PreCommit, http, TRUE))
               /\ result' = Returned(TRUE)
          ELSE /\ trace' = trace \o <<HttpPost(S_PreCommit, http, FALSE),
                                      HttpPost(S_PreCommit, again, send_webhook(again))>>
               /\ result' = Returned(send_webhook(again))
    /\ pc' = "done"
    /\ UNCHANGED <<op, args, abspath, hook_vars, read_vars, info, fmt>>

\* lines 1066-1073: the one call of send_webhook
PreSendWebhook ==
    /\ pc = "pre_send"
    /\ \E http \in HttpOutcomes :
        /\ trace' = Append(trace, HttpPost(S_PreCommit, http, send_webhook(http)))
        /\ result' = Returned(send_webhook(http))
    /\ pc' = "done"
    /\ UNCHANGED <<op, args, abspath, hook_vars, read_vars, info, fmt>>

---------------------------------------------------------------------------
(* create_post_commit_hook *)

CallCreatePostCommitHook ==
    /\ pc = "idle"
    /\ \E revision \in RevisionArgs :
        args' = [revision |-> revision, target_revision |-> None, format_style |-> S_github]
    /\ op' = "create_post_commit_hook"
    /\ pc' = "post_repo_info"
    /\ UNCHANGED <<abspath, hook_vars, read_vars, info, trace, result, fmt>>

\* lines 1093-1104: get_repo_info, target_revision, the call of get_commit_info
PostGetRepoInfo ==
    /\ pc = "post_repo_info"
    /\ \E outcome \in InfoOutcomes :
        /\ trace' = trace \o InfoTrace(outcome)
        /\ abspath' = AbspathAfter(outcome, abspath)
        /\ hook_repo_info' = get_repo_info(outcome)
        /\ IF get_repo_info(outcome) = NoneObj
             THEN result' = Returned(FALSE) /\ pc' = "done" /\ args' = args
             ELSE /\ result' = result
                  /\ pc' = "ci_repo_info"
                  /\ args' = [args EXCEPT !.target_revision =
                                 IF Truthy(args.revision) THEN args.revision
                                 ELSE get_repo_info(outcome).revision]
    /\ UNCHANGED <<op, read_vars, info, payload, fmt>>

\* PostBuildPayload where a revision without file changes is a failure
PostBuildPayload_EmptyIsFailure ==
    /\ pc = "post_commit_info"
    /\ IF info = NoneObj
         THEN result' = Returned(FALSE) /\ pc' = "done" /\ payload' = payload
       ELSE IF info.changed_files = <<>>
         THEN result' = Returned(FALSE) /\ pc' = "done" /\ payload' = payload
       ELSE /\ payload' = _build_svn_webhook_payload(S_PostCommit, info.changed_files, info, None,
                                                     hook_repo_info, Raised, AuthRaises)
            /\ IF payload' = EmptyDict
                 THEN result' = Returned(FALSE) /\ pc' = "done"
                 ELSE result' = result /\ pc' = "post_send"
    /\ UNCHANGED <<op, args, abspath, hook_repo_info, read_vars, info, trace, fmt>>

\* lines 1105-1123: the checks of commit_info, the payload, and the check
\* that it is not empty
PostBuildPayload ==
    /\ pc = "post_commit_info"
    /\ IF info = NoneObj
         THEN result' = Returned(FALSE) /\ pc' = "done" /\ payload' = payload
       ELSE IF info.changed_files = <<>>
         THEN result' = Returned(TRUE) /\ pc' = "done" /\ payload' = payload
       ELSE /\ payload' = _build_svn_webhook_payload(S_PostCommit, info.changed_files, info, None,
                                                     hook_repo_info, Raised, AuthRaises)
            /\ IF payload' = EmptyDict
                 THEN result' = Returned(FALSE) /\ pc' = "done"
                 ELSE result' = result /\ pc' = "post_send"
    /\ UNCHANGED <<op, args, abspath, hook_repo_info, read_vars, info, trace, fmt>>

\* lines 1126-1133: the one call of send_webhook
PostSendWebhook ==
    /\ pc = "post_send"
    /\ \E http \in HttpOutcomes :
        /\ trace' = Append(trace, HttpPost(S_PostCommit, http, send_webhook(http)))
        /\ result' = Returned(send_webhook(http))
    /\ pc' = "done"
    /\ UNCHANGED <<op, args, abspath, hook_vars, read_vars, info, fmt>>

---------------------------------------------------------------------------
(* svn_command: subprocess.run is called without a timeout *)

\* whether the next step of the run is a call of svn_command
SvnCallPending ==
    \/ pc \in {"wcc_repo_info", "wcc_summarize", "ci_repo_info", "post_repo_info"}
    \/ (pc = "wcc_files" /\ pending # <<>>)
    \/ (pc = "wcc_lines" /\ pending # <<>> /\ ~SkipsLine(Head(pending)))
    \/ (pc = "ci_log" /\ (Truthy(CiRevision) \/ repo_info # NoneObj))
    \/ (pc = "ci_paths" /\ pending # <<>> /\ ~SkipsPath(Head(pending))
          /\ ~PathRaises(Head(pending), CiRevision, repo_info))
    \/ (pc = "pre_changes" /\ info # NoneObj /\ info.changed_files # <<>>)

\* line 469: the svn client never exits, and subprocess.run, which is given
\* no timeout, never returns: the run stays inside the call
SvnNeverExits ==
    /\ SvnCallPending
    /\ pc' = "suspended"
    /\ UNCHANGED <<op, args, abspath, hook_vars, read_vars, info, trace, result, fmt>>

---------------------------------------------------------------------------
(* The run ends: the next hook trigger starts from a fresh object *)

Return ==
    /\ pc = "done"
    /\ pc' = "idle"
    /\ op' = "none"
    /\ args' = NoneObj
    /\ abspath' = StartDir
    /\ hook_repo_info' = NoneObj
    /\ repo_info' = NoneObj
    /\ pending' = <<>>
    /\ changed_files' = <<>>
    /\ entry' = NoneObj
    /\ info' = NoneObj
    /\ payload' = EmptyDict
    /\ trace' = <<>>
    /\ result' = NoResult
    /\ UNCHANGED fmt

Next ==
    \/ GetFileDiff
    \/ CallGetWorkingCopyChanges
    \/ WccGetRepoInfo
    \/ WccFile
    \/ WccSummarize
    \/ WccLine
    \/ WccReturnChanges
    \/ CallGetCommitInfo
    \/ CiGetRepoInfo
    \/ CiLog
    \/ CiPath
    \/ CiReturnCommitInfo
    \/ BuildSvnWebhookPayload
    \/ CallCreatePreCommitHook
    \/ PreGetRepoInfo
    \/ PreBuildPayload
    \/ PreSendWebhook
    \/ CallCreatePostCommitHook
    \/ PostGetRepoInfo
    \/ PostBuildPayload
    \/ PostSendWebhook
    \/ SvnNeverExits
    \/ Return

Spec == Init /\ [][Next]_vars

\* ENABLED <<WccLine \/ CiPath>>_vars: a loop that runs `svn diff` for each
\* entry is at an entry (each branch of WccLine and of CiPath is a step, and
\* each removes the entry or returns)
DiffTurnPending == pc \in {"wcc_lines", "ci_paths"} /\ pending # <<>>

\* the run is one sequential thread, so a step that can be taken is taken:
\* weak fairness of the steps outside the loop turns, and weak fairness of
\* the loop turns with its ENABLED written out as DiffTurnPending
SpecLive ==
    /\ Spec
    /\ WF_vars(~DiffTurnPending /\ Next)
    /\ ([]<>(~DiffTurnPending) \/ []<><<WccLine \/ CiPath>>_vars)

---------------------------------------------------------------------------
(* The DiffFormatter on its own: the inputs, and one action per function *)

\* the diff texts handed to the DiffFormatter
FormatterDiffs ==
    {SvnDiff(p, body) : p \in FilePaths, body \in SeqsUpTo(
            \* hunk lines: ' keep', '+new', '-old', '+++i;' (adds '++i;'), '--- c' (deletes '-- c')
            {<<" ","k","e","e","p">>, <<"+","n","e","w">>, <<"-","o","l","d">>,
             <<"+","+","+","i",";">>, <<"-","-","-"," ","c">>}, MaxBody)}
    \cup {SvnBinaryDiff(p) : p \in FilePaths}
    \cup {Join(ls, <<NL>>) : ls \in SeqsUpTo(
            {<<>>, T_IndexSp \o PathA, T_MinusSp \o PathA \o T_Revision41,
             T_PlusSp \o PathA \o T_WorkingCopy, <<"+","x">>, <<"-","y">>, <<" ","z">>,
             S_CannotDisplay, S_MimeOctet, S_CannotDisplay \o S_MimeOctet}, MaxRawLines)}

FormatterInit ==
    /\ MainInit
    /\ fmt \in {[op |-> "input", diff |-> d, path |-> p] :
                   d \in FormatterDiffs, p \in FilePaths \cup {None}}

main_vars == <<pc, op, args, abspath, hook_repo_info, repo_info, pending, changed_files,
               entry, info, payload, trace, result>>

FormatToGithubStyle ==
    /\ fmt.op = "input"
    /\ fmt' = [op |-> "format_to_github_style", diff |-> fmt.diff, path |-> fmt.path,
               formatted |-> format_to_github_style(fmt.diff, fmt.path)]
    /\ UNCHANGED main_vars

\* the formatter applied to its own output, with the same path or with none
FormatAgain ==
    /\ fmt.op = "format_to_github_style"
    /\ \E again \in {fmt.path, None} :
        fmt' = [op |-> "format_again", diff |-> fmt.diff, path |-> fmt.path,
                formatted |-> fmt.formatted, again_path |-> again,
                reformatted |-> format_to_github_style(fmt.formatted, again)]
    /\ UNCHANGED main_vars

ExtractDiffStats ==
    /\ fmt.op = "input"
    /\ fmt' = [op |-> "extract_diff_stats", diff |-> fmt.diff, path |-> fmt.path,
               stats |-> extract_diff_stats(fmt.diff)]
    /\ UNCHANGED main_vars

IsBinaryDiff ==
    /\ fmt.op = "input"
    /\ fmt' = [op |-> "is_binary_diff", diff |-> fmt.diff, path |-> fmt.path,
               binary |-> is_binary_diff(fmt.diff)]
    /\ UNCHANGED main_vars

FormatterNext ==
    \/ FormatToGithubStyle
    \/ FormatAgain
    \/ ExtractDiffStats
    \/ IsBinaryDiff

SpecFormatter == FormatterInit /\ [][FormatterNext]_vars

---------------------------------------------------------------------------
(* webhook_handler.py, the consumer of the payload: filter_changes and       *)
(* SVNCommitHandler.get_commit_changes, each on its own                      *)

\* most entries of a changes list handed to the consumer
MaxChanges == 2

\* filter_changes without the filter of the deleted files
filter_changes_KeepsDeleted(changes, env) ==
    LET Get(item, key, default) == IF key \in DOMAIN item THEN item[key] ELSE default
        supported_extensions ==
            SplitChar(IF env # None THEN env
                      ELSE <<".","j","a","v","a",",",".","p","y",",",".","p","h","p">>, ",")
        Supported(item) ==
            \E k \in 1..Len(supported_extensions) :
                EndsWith(Get(item, "new_path", <<>>), supported_extensions[k])
        kept == SelectSeq(changes, Supported)
    IN  [i \in 1..Len(kept) |->
            [diff |-> Get(kept[i], "diff", <<>>),
             new_path |-> kept[i].new_path,
             old_path |-> Get(kept[i], "old_path", kept[i].new_path),
             additions |-> Get(kept[i], "additions", 0),
             deletions |-> Get(kept[i], "deletions", 0),
             action |-> Get(kept[i], "action", S_M),
             is_binary |-> Get(kept[i], "is_binary", FALSE),
             old_revision |-> Get(kept[i], "old_revision", None),
             new_revision |-> Get(kept[i], "new_revision", None)]]

\* filter_changes(changes) where the environment variable SUPPORTED_EXTENSIONS
\* is env (None: not set); Get is dict.get(key, default)
filter_changes(changes, env) ==
    LET Get(item, key, default) == IF key \in DOMAIN item THEN item[key] ELSE default
        \* line 21; the default is '.java,.py,.php'
        supported_extensions ==
            SplitChar(IF env # None THEN env
                      ELSE <<".","j","a","v","a",",",".","p","y",",",".","p","h","p">>, ",")
        \* lines 24-27
        NotDeleted(change) == Get(change, "action", None) # S_D
        filter_deleted_files_changes == SelectSeq(changes, NotDeleted)
        \* line 47
        Supported(item) ==
            \E k \in 1..Len(supported_extensions) :
                EndsWith(Get(item, "new_path", <<>>), supported_extensions[k])
        kept == SelectSeq(filter_deleted_files_changes, Supported)
    IN  \* lines 34-45
        [i \in 1..Len(kept) |->
            [diff |-> Get(kept[i], "diff", <<>>),
             new_path |-> kept[i].new_path,
             old_path |-> Get(kept[i], "old_path", kept[i].new_path),
             additions |-> Get(kept[i], "additions", 0),
             deletions |-> Get(kept[i], "deletions", 0),
             action |-> Get(kept[i], "action", S_M),
             is_binary |-> Get(kept[i], "is_binary", FALSE),
             old_revision |-> Get(kept[i], "old_revision", None),
             new_revision |-> Get(kept[i], "new_revision", None)]]

\* get_commit_changes that accepts the Post-Commit event only
get_commit_changes_PostOnly(webhook_data) ==
    LET event_type == IF "event_type" \in DOMAIN webhook_data
                        THEN webhook_data.event_type ELSE None
        changes_data == IF "changes" \in DOMAIN webhook_data
                          THEN webhook_data.changes ELSE <<>>
    IN  IF event_type # S_PostCommit THEN <<>>
        ELSE IF changes_data = <<>> THEN <<>>
        ELSE changes_data

\* SVNCommitHandler(webhook_data).get_commit_changes(): parse_event_data
\* (lines 98, 109), then lines 122-132
get_commit_changes(webhook_data) ==
    LET event_type == IF "event_type" \in DOMAIN webhook_data
                        THEN webhook_data.event_type ELSE None
        changes_data == IF "changes" \in DOMAIN webhook_data
                          THEN webhook_data.changes ELSE <<>>
    IN  IF event_type \notin {S_PostCommit, S_PreCommit} THEN <<>>
        ELSE IF changes_data = <<>> THEN <<>>
        ELSE changes_data

\* the inputs of the consumer: lists of changes as the producer builds them
\* ('a.py' modified, 'a.py' deleted, 'n.txt' added with a failed diff, a binary
\* 'c.java' replaced) and an entry with new_path 'm.py' and no other key, under
\* three settings of SUPPORTED_EXTENSIONS (not set, '.py', '.java, .py'); and
\* the payloads the producer builds of such lists for three event types, with
\* the empty payload
HandlerInit ==
    LET repo == get_repo_info([Exit0(<<>>) EXCEPT !.stdout = InfoXml])
        n_txt == <<"n",".","t","x","t">>
        c_java == <<"c",".","j","a","v","a">>
        file_changes ==
            {SVNFileChange(PathA, S_M,
                 get_file_diff(PathA, S_github, Exit0(SvnDiff(PathA, BodyEdit))),
                 Rev42, S_working_copy),
             SVNFileChange(PathA, S_D,
                 get_file_diff(PathA, S_github, Exit0(SvnDiff(PathA, BodyEdit))),
                 Rev41, None),
             SVNFileChange(n_txt, S_A,
                 get_file_diff(n_txt, S_github, Exit1(<<>>, StderrFailed)), None, Rev42),
             SVNFileChange(c_java, S_R,
                 get_file_diff(c_java, S_github, Exit0(SvnBinaryDiff(c_java))), Rev41, Rev42)}
        entries == {ChangeEntry(c) : c \in file_changes}
                     \cup {[new_path |-> <<"m",".","p","y">>]}
        commit(files) ==
            SVNCommitInfo(Rev42, EntryFields(LogEntry(DateFraction, AuthorBob, MsgFix, TRUE, <<>>)),
                          files, repo)
    IN  /\ MainInit
        /\ fmt \in
             {[op |-> "changes", changes |-> cs, env |-> env] :
                 cs \in SeqsUpTo(entries, MaxChanges),
                 env \in {None, <<".","p","y">>,
                          <<".","j","a","v","a",","," ",".","p","y">>}}
             \cup {[op |-> "payload",
                    webhook_data |-> BuildPayload(event_type, files,
                                         IF event_type = S_PostCommit THEN commit(files) ELSE NoneObj,
                                         None, repo, AuthRaises)] :
                     event_type \in {S_PreCommit, S_PostCommit, <<"P","u","s","h">>},
                     files \in SeqsUpTo(file_changes, MaxChanges)}
             \cup {[op |-> "payload", webhook_data |-> EmptyDict]}

FilterChanges ==
    /\ fmt.op = "changes"
    /\ fmt' = [op |-> "filter_changes", changes |-> fmt.changes, env |-> fmt.env,
               filtered |-> filter_changes(fmt.changes, fmt.env)]
    /\ UNCHANGED main_vars

GetCommitChanges ==
    /\ fmt.op = "payload"
    /\ fmt' = [op |-> "get_commit_changes", webhook_data |-> fmt.webhook_data,
               changes |-> get_commit_changes(fmt.webhook_data)]
    /\ UNCHANGED main_vars

HandlerNext ==
    \/ FilterChanges
    \/ GetCommitChanges

SpecHandler == HandlerInit /\ [][HandlerNext]_vars

---------------------------------------------------------------------------
(* Claims *)

\* the trace entries of the svn runs whose first argument is one of `commands`
SvnRunsOf(commands) ==
    {i \in 1..Len(trace) : trace[i].ev = "svn" /\ trace[i].argv[1] \in commands}

\* get_file_diff has returned to the caller that called it directly
GetFileDiffDone == op = "get_file_diff" /\ pc = "done"

\* C1: get_file_diff runs exactly one svn command, and it is
\* `diff -r <old>:<new> <path>` when both bounds are given, `diff -r <old> <path>`
\* when only old_revision is given, `diff <path>` when neither is given.
C1_DiffCommandFollowsBounds ==
    GetFileDiffDone =>
        /\ Len(trace) = 1
        /\ trace[1].ev = "svn"
        /\ (args.old_revision # None /\ args.new_revision # None =>
              trace[1].argv = <<S_diff, S_r, args.old_revision \o <<":">> \o args.new_revision,
                                args.file_path>>)
        /\ (args.old_revision # None /\ args.new_revision = None =>
              trace[1].argv = <<S_diff, S_r, args.old_revision, args.file_path>>)
        /\ (args.old_revision = None /\ args.new_revision = None =>
              trace[1].argv = <<S_diff, args.file_path>>)

\* a direct call with both bounds has issued its range diff
C1_Witness ==
    /\ GetFileDiffDone
    /\ args.old_revision = Rev41
    /\ args.new_revision = Rev42
    /\ trace[1].argv[3] = <<"4","1",":","4","2">>

\* the file changes get_commit_info has built so far, or has returned
CommitInfoChanges ==
    IF pc = "ci_paths" THEN changed_files
    ELSE IF op = "get_commit_info" /\ pc = "done" /\ result.value # NoneObj
      THEN result.value.changed_files
    ELSE IF op = "create_post_commit_hook" /\ pc \in {"post_commit_info", "post_send"} /\ info # NoneObj
      THEN info.changed_files
    ELSE <<>>

\* old is the revision number just before revision
IsRevisionBefore(old, revision) ==
    /\ old # None
    /\ IsInt(old)
    /\ IsInt(revision)
    /\ ParseInt(old) = ParseInt(revision) - 1
    /\ (revision = Rev42 => old = Rev41)

\* C2: in every file change get_commit_info(r) builds, an Added file has no
\* old_revision and new_revision r, a Deleted file has old_revision r-1 and no
\* new_revision, a Modified or Replaced file has old_revision r-1 and new_revision r.
C2_CommitRevisionsByAction ==
    \A i \in 1..Len(CommitInfoChanges) :
        LET change == CommitInfoChanges[i]
        IN  /\ (change.action = S_A =>
                  change.old_revision = None /\ change.new_revision = CiRevision)
            /\ (change.action = S_D =>
                  IsRevisionBefore(change.old_revision, CiRevision) /\ change.new_revision = None)
            /\ (change.action \in {S_M, S_R} =>
                  /\ IsRevisionBefore(change.old_revision, CiRevision)
                  /\ change.new_revision = CiRevision
                  /\ change.new_revision # None)

\* get_commit_info("42") has built the changes of an Added and of a Replaced path
C2_Witness ==
    /\ pc = "ci_paths"
    /\ CiRevision = Rev42
    /\ Len(changed_files) = 2
    /\ changed_files[1].action = S_A
    /\ changed_files[1].new_revision = Rev42
    /\ changed_files[2].action = S_R
    /\ changed_files[2].old_revision = Rev41

\* the action code of a summary line: its first token, if it has one
HasUnknownCode(line) ==
    Len(SplitWs(line)) >= 1 /\ SplitWs(line)[1] \notin {S_A, S_D, S_M, S_R}

\* every file change of the run has one of the four actions
ActionsEnumerated ==
    /\ \A i \in 1..Len(changed_files) : changed_files[i].action \in {S_A, S_D, S_M, S_R}
    /\ (op = "get_working_copy_changes" /\ pc = "done" /\ result.value # NoneObj =>
          \A i \in 1..Len(result.value.changed_files) :
              result.value.changed_files[i].action \in {S_A, S_D, S_M, S_R})
    /\ \A i \in 1..Len(CommitInfoChanges) : CommitInfoChanges[i].action \in {S_A, S_D, S_M, S_R}

\* the turn of a loop for an unknown action code adds no file change, and the
\* loop goes on with the next line, path or file
UnknownCodeSkipped ==
    /\ (pc = "wcc_lines" /\ pending # <<>> /\ HasUnknownCode(Head(pending)) =>
          changed_files' = changed_files /\ pc' = "wcc_lines" /\ pending' = Tail(pending))
    /\ (pc = "ci_paths" /\ pending # <<>> /\ Head(pending).action \notin {S_A, S_D, S_M, S_R, Missing} =>
          changed_files' = changed_files /\ pc' = "ci_paths" /\ pending' = Tail(pending))
    /\ (/\ pc = "wcc_files"
        /\ pending # <<>>
        /\ Len(trace') > Len(trace)
        /\ trace'[Len(trace) + 1].ok
        /\ HasUnknownCode(SplitChar(Strip(trace'[Len(trace) + 1].stdout), NL)[1])
        => changed_files' = changed_files /\ pc' = "wcc_files" /\ pending' = Tail(pending))

\* C3: every FileChange of get_working_copy_changes and get_commit_info has an
\* action in {Added, Deleted, Modified, Replaced}; a line or path with another
\* action code produces no FileChange, does not fail the operation and does not
\* stop the loop.
C3_UnknownActionsSkipped == []ActionsEnumerated /\ [][UnknownCodeSkipped]_vars

\* discovery mode has skipped a line with code MM and built the change of the
\* line after it
C3_Witness ==
    /\ pc = "wcc_lines"
    /\ pending = <<>>
    /\ trace[3].stdout = SummaryText(<<SummaryLine(S_MM, PathA), SummaryLine(S_M, PathA)>>)
    /\ Len(changed_files) = 1
    /\ changed_files[1].path = PathA

\* C4: _build_svn_webhook_payload with no repo_info and a failing get_repo_info
\* returns {}; no hook ever passes an empty payload to send_webhook.
C4_EmptyPayloadNeverSent ==
    /\ (/\ op = "_build_svn_webhook_payload"
        /\ pc = "done"
        /\ args.repo_info = NoneObj
        /\ ~trace[2].ok
        => result.value = EmptyDict)
    /\ (pc \in {"pre_send", "post_send"} => payload # EmptyDict)
    /\ \A i \in 1..Len(trace) : trace[i].ev = "post" => payload # EmptyDict

\* the payload builder was called without repo_info, its lookup failed, and it
\* returned {}
C4_Witness ==
    /\ op = "_build_svn_webhook_payload"
    /\ pc = "done"
    /\ args.repo_info = NoneObj
    /\ trace[2].ev = "get_repo_info"
    /\ ~trace[2].ok
    /\ result.value = EmptyDict

\* the running operation is a hook
InHook == op \in {"create_pre_commit_hook", "create_post_commit_hook"}

\* C5 (as claimed): once get_repo_info has returned no info, the run issues no
\* diff or log command and no dispatch, and get_working_copy_changes returns
\* failure and the hooks return False.
C5_RepoInfoFailureIsFatal ==
    \A i \in 1..Len(trace) :
        (trace[i].ev = "get_repo_info" /\ ~trace[i].ok /\ (InHook \/ op = "get_working_copy_changes")) =>
            /\ \A j \in (i + 1)..Len(trace) :
                  /\ trace[j].ev # "post"
                  /\ ~(trace[j].ev = "svn" /\ trace[j].argv[1] \in {S_diff, S_log})
            /\ (pc = "done" /\ InHook => result.value = FALSE)
            /\ (pc = "done" /\ op = "get_working_copy_changes" => result.value = NoneObj)

\* C6 (as claimed): get_commit_info returns a CommitInfo only when its
\* get_repo_info returned info and the log output holds a log entry.
C6_CommitInfoNeedsRepoInfo ==
    (op = "get_commit_info" /\ pc = "done" /\ result.value # NoneObj) =>
        /\ trace[2].ev = "get_repo_info"
        /\ trace[2].ok
        /\ trace[3].ok
        /\ trace[3].stdout.wellformed
        /\ trace[3].stdout.logentry # NoneObj

\* get_working_copy_changes runs without a file list, directly or in the pre-commit hook
Discovery ==
    /\ op \in {"get_working_copy_changes", "create_pre_commit_hook"}
    /\ args.commit_files = NoneList

\* get_working_copy_changes has just returned
WccReturned ==
    \/ (op = "get_working_copy_changes" /\ pc = "done")
    \/ (op = "create_pre_commit_hook" /\ pc = "pre_changes")

\* what it returned
WccValue == IF op = "get_working_copy_changes" THEN result.value ELSE info

\* the lines of a summarized diff output that name an action and a path
RecognizedLines(stdout) ==
    LET lines == SplitChar(Strip(stdout), NL)
    IN  {i \in 1..Len(lines) :
            Len(SplitWs(lines[i])) >= 2 /\ SplitWs(lines[i])[1] \in {S_A, S_D, S_M, S_R}}

\* C7: in discovery mode get_working_copy_changes fails exactly when repository
\* info is unavailable or `diff --summarize` fails; a failing per-file diff
\* leaves a FileChange with no diff content, zero counts and is_binary false,
\* and every recognized line gets its FileChange.
C7_DiscoveryFailsOnlyOnSummarize ==
    Discovery =>
        /\ (WccReturned =>
              (WccValue = NoneObj <=> (~trace[2].ok \/ (Len(trace) >= 3 /\ ~trace[3].ok))))
        /\ (pc = "wcc_lines" \/ (WccReturned /\ WccValue # NoneObj) =>
              LET files == IF pc = "wcc_lines" THEN changed_files ELSE WccValue.changed_files
              IN  /\ Len(files) = Len(trace) - 3
                  /\ \A k \in 1..Len(files) :
                        ~trace[3 + k].ok =>
                            /\ files[k].diff_content = None
                            /\ files[k].lines_added = 0
                            /\ files[k].lines_deleted = 0
                            /\ ~files[k].is_binary)
        /\ (WccReturned /\ WccValue # NoneObj =>
              Len(WccValue.changed_files) = Cardinality(RecognizedLines(trace[3].stdout)))

\* discovery mode returned two changes: the diff of the first failed, the
\* second has its diff
C7_Witness ==
    /\ Discovery
    /\ op = "get_working_copy_changes"
    /\ pc = "done"
    /\ result.value # NoneObj
    /\ Len(result.value.changed_files) = 2
    /\ ~trace[4].ok
    /\ result.value.changed_files[1].diff_content = None
    /\ trace[5].ok
    /\ result.value.changed_files[2].diff_content # None

\* the text holds one of the two binary-file markers, compared case-insensitively
HasBinaryMarker(diff) ==
    \/ Contains(Lower(diff), Lower(S_CannotDisplay))
    \/ Contains(Lower(diff), Lower(S_MimeOctet))

\* C8 (as claimed): is_binary_diff is true for every text that holds one of the
\* binary-file markers, and false for the empty text.
C8_BinaryMarkerDetected ==
    fmt.op = "is_binary_diff" =>
        /\ (HasBinaryMarker(fmt.diff) => fmt.binary)
        /\ (fmt.diff = <<>> => ~fmt.binary)

\* the text is what svn prints for one text file with one hunk
IsSvnTextDiff(diff) ==
    LET lines == SplitChar(diff, NL)
    IN  /\ Len(lines) >= 6
        /\ StartsWith(lines[1], T_IndexSp)
        /\ lines[2] = SvnSeparator
        /\ StartsWith(lines[3], T_MinusSp)
        /\ StartsWith(lines[4], T_PlusSp)
        /\ StartsWith(lines[5], <<"@", "@">>)
        /\ lines[Len(lines)] = <<>>
        /\ \A i \in 6..(Len(lines) - 1) : Len(lines[i]) > 0 /\ lines[i][1] \in {" ", "+", "-"}

\* the hunk lines of such a text that start with the sign
HunkLinesWith(diff, sign) ==
    LET lines == SplitChar(diff, NL)
    IN  {i \in 6..(Len(lines) - 1) : lines[i][1] = sign}

\* C9 (as claimed): extract_diff_stats gives (0,0) for the empty text, never a
\* negative count, and for a diff of one file the number of added and of
\* deleted hunk lines, whatever their content is.
C9_StatsCountContentLines ==
    fmt.op = "extract_diff_stats" =>
        /\ (fmt.diff = <<>> => fmt.stats = <<0, 0>>)
        /\ fmt.stats[1] >= 0
        /\ fmt.stats[2] >= 0
        /\ (IsSvnTextDiff(fmt.diff) =>
              fmt.stats = <<Cardinality(HunkLinesWith(fmt.diff, "+")),
                            Cardinality(HunkLinesWith(fmt.diff, "-"))>>)

\* C10 (as claimed): format_to_github_style applied to its own output for a
\* path p, with p again or with no path, returns that output unchanged.
C10_FormatIdempotent ==
    (fmt.op = "format_again" /\ Truthy(fmt.path)) => fmt.reformatted = fmt.formatted

\* the index of the first line from i on that starts with "---", or 0
RECURSIVE FirstHeader(_, _)
FirstHeader(lines, i) ==
    IF i > Len(lines) THEN 0
    ELSE IF StartsWith(lines[i], S_Minus3) THEN i
    ELSE FirstHeader(lines, i + 1)

\* the lines the formatter is claimed to write: nothing before the first "---"
\* line, that line and the "+++" line after it as rewritten headers, and every
\* later line as it is
ExpectedFormatted(diff, path) ==
    LET lines == SplitChar(diff, NL)
        h == FirstHeader(lines, 1)
        minus == HeaderLine(lines[h], path, S_Minus3, <<"-","-","-"," ","a","/">>)
        plus == HeaderLine(lines[h + 1], path, S_Plus3, <<"+","+","+"," ","b","/">>)
    IN  IF h = 0 THEN <<>>
        ELSE IF h < Len(lines) /\ StartsWith(lines[h + 1], S_Plus3)
          THEN <<minus, plus>> \o SubSeq(lines, h + 2, Len(lines))
        ELSE <<minus>> \o SubSeq(lines, h + 1, Len(lines))

\* C11 (as claimed): format_to_github_style drops the lines before the first
\* "---" header, rewrites only that header and its "+++" header, and writes
\* every later line verbatim and in order, whatever it starts with.
C11_ContentVerbatim ==
    fmt.op = "format_to_github_style" =>
        fmt.formatted = Join(ExpectedFormatted(fmt.diff, fmt.path), <<NL>>)

\* a summary line that names a recognized action and a path
IsRecognizedLine(line) ==
    Len(SplitWs(line)) >= 2 /\ SplitWs(line)[1] \in {S_A, S_D, S_M, S_R}

\* what follows the action code on a summary line, without the blanks around it
LineRemainder(line) ==
    LET s == Strip(line)
    IN  Strip(SubSeq(s, Len(SplitWs(s)[1]) + 1, Len(s)))

\* C12 (as claimed): discovery mode builds one FileChange per recognized
\* summary line, in line order: the action is the first token, the path is the
\* whole remainder of the line (blanks inside it included), old_revision is
\* the repository revision, new_revision is "working copy", and the diff is
\* fetched with `diff <path>`.
C12_DiscoveryLineToChange ==
    (Discovery /\ pc = "wcc_lines" /\ pending = <<>>) =>
        LET lines == SelectSeq(SplitChar(Strip(trace[3].stdout), NL), IsRecognizedLine)
        IN  /\ Len(changed_files) = Len(lines)
            /\ \A k \in 1..Len(lines) :
                  /\ changed_files[k].action = SplitWs(lines[k])[1]
                  /\ changed_files[k].path = LineRemainder(lines[k])
                  /\ changed_files[k].old_revision = trace[1].stdout.revision
                  /\ changed_files[k].new_revision = S_working_copy
                  /\ trace[3 + k].argv = <<S_diff, LineRemainder(lines[k])>>

\* C13 (as claimed): in every FileChange of every operation, old_revision is
\* absent when the action is Added and new_revision is absent when it is Deleted.
C13_RevisionAbsentByAction ==
    \A i \in 1..Len(changed_files) :
        /\ (changed_files[i].action = S_A => changed_files[i].old_revision = None)
        /\ (changed_files[i].action = S_D => changed_files[i].new_revision = None)

\* get_working_copy_changes runs with a file list, directly or in the pre-commit hook
Explicit ==
    /\ op \in {"get_working_copy_changes", "create_pre_commit_hook"}
    /\ args.commit_files # NoneList

\* a trace entry of `svn diff --summarize <path>`
IsSummarizeRun(e) ==
    e.ev = "svn" /\ Len(e.argv) = 3 /\ e.argv[1] = S_diff /\ e.argv[2] = S_summarize

\* such a run succeeded and its first line names a recognized action
SummarizeRecognized(e) ==
    e.ok /\ IsRecognizedLine(SplitChar(Strip(e.stdout), NL)[1])

CommitInfoOfSoundEntry ==
    /\ op = "get_commit_info"
    /\ pc = "done"
    /\ IsInt(args.revision)
    /\ Len(trace) >= 3
    /\ trace[2].ok
    /\ trace[3].ok
    /\ trace[3].stdout.wellformed
    /\ trace[3].stdout.logentry # NoneObj
    /\ trace[3].stdout.logentry.date = DateFraction
    /\ trace[3].stdout.logentry.author # None
    /\ trace[3].stdout.logentry.paths = <<PathElement(S_M, LogPathA)>>

\* C15 (as claimed): for a log entry without an author element the CommitInfo's
\* author is "unknown"; for one whose msg element is absent or empty
\* get_commit_info still returns a CommitInfo, with the empty string as message.
C15_OptionalLogFieldsDefault ==
    CommitInfoOfSoundEntry =>
        /\ result.value # NoneObj
        /\ (trace[3].stdout.logentry.author = Missing => result.value.author = S_unknown)
        /\ (trace[3].stdout.logentry.msg \in {Missing, None} => result.value.message = <<>>)

\* a payload _build_svn_webhook_payload has built in this run, if there is one
HasBuiltPayload ==
    \/ (InHook /\ payload # EmptyDict)
    \/ (op = "_build_svn_webhook_payload" /\ pc = "done" /\ result.value # EmptyDict)

BuiltPayload == IF InHook THEN payload ELSE result.value

\* C16 (as claimed): object_attributes.author of every built payload is a
\* string: the commit's author when commit info is supplied, otherwise the
\* discovered author or "unknown"; it is never a missing value.
C16_PayloadAuthorDefined ==
    HasBuiltPayload =>
        /\ BuiltPayload.object_attributes.author # None
        /\ (op = "create_post_commit_hook" => BuiltPayload.object_attributes.author = info.author)
        /\ (op # "create_post_commit_hook" =>
              BuiltPayload.object_attributes.author \in {AuthorBob, S_unknown})

\* the title and description of a built payload
PayloadTitle == BuiltPayload.object_attributes.title
PayloadDescription == BuiltPayload.object_attributes.description

\* C17: a Pre-Commit payload carries the fixed validation title and
\* description; a Post-Commit payload carries the first line of the commit
\* message as title and the whole message as description, and the defaults
\* 'SVN commit' / 'SVN post-commit notification' where the message is empty or
\* no commit info is given.
C17_EventSpecificFields ==
    HasBuiltPayload =>
        IF BuiltPayload.event_type = S_PreCommit
          THEN /\ PayloadTitle = <<"P","r","e","-","C","o","m","m","i","t"," ","v","a","l","i","d","a","t","i","o","n">>
               /\ PayloadDescription = <<"S","V","N"," ","p","r","e","-","c","o","m","m","i","t"," ","h","o","o","k"," ","v","a","l","i","d","a","t","i","o","n">>
        ELSE IF op = "create_post_commit_hook"
          THEN /\ PayloadDescription = info.message
               /\ PayloadTitle # None
               /\ (info.message # <<>> =>
                     /\ StartsWith(info.message, PayloadTitle)
                     /\ ~Contains(PayloadTitle, <<NL>>)
                     /\ (Len(PayloadTitle) < Len(info.message) =>
                           info.message[Len(PayloadTitle) + 1] = NL))
               /\ (info.message = <<>> => PayloadTitle = <<"S","V","N"," ","c","o","m","m","i","t">>)
        ELSE /\ PayloadTitle = <<"S","V","N"," ","c","o","m","m","i","t">>
             /\ PayloadDescription = <<"S","V","N"," ","p","o","s","t","-","c","o","m","m","i","t"," ","n","o","t","i","f","i","c","a","t","i","o","n">>

\* the post-commit hook has built the payload of a commit with the two-line
\* message 'fix a\nmore': the title is 'fix a'
C17_Witness ==
    /\ op = "create_post_commit_hook"
    /\ payload # EmptyDict
    /\ info.message = MsgFix
    /\ payload.object_attributes.title = <<"f","i","x"," ","a">>
    /\ payload.object_attributes.description = MsgFix

\* the dispatch attempts of the run
Posts == {i \in 1..Len(trace) : trace[i].ev = "post"}

\* C18: a run of create_pre_commit_hook or create_post_commit_hook makes at
\* most one HTTP POST; nothing follows the attempt, failed or not, and the hook
\* returns the result of the attempt.
C18_SingleDispatchAttempt ==
    InHook =>
        /\ Cardinality(Posts) <= 1
        /\ \A i \in Posts :
              /\ i = Len(trace)
              /\ pc = "done"
              /\ result.value = trace[i].ok
              /\ trace[i].argv = <<IF op = "create_pre_commit_hook" THEN S_PreCommit ELSE S_PostCommit>>
        /\ (pc \in {"pre_send", "post_send"} => Posts = {})

\* the pre-commit hook made its one attempt, which failed, and returned False
C18_Witness ==
    /\ op = "create_pre_commit_hook"
    /\ pc = "done"
    /\ Cardinality(Posts) = 1
    /\ ~trace[Len(trace)].ok
    /\ result.value = FALSE

\* C19 (as claimed): send_webhook returns true exactly when the transport
\* reports a 2xx status, and false for any other status and for an exception.
C19_SuccessIsAny2xx ==
    \A i \in Posts :
        trace[i].ok <=> (~trace[i].raised /\ trace[i].status_code \in 200..299)

\* a trace entry of a query the running operation depends on (`svn info`,
\* `svn log`, `svn diff --summarize`) that failed: the command did not run or
\* exited non-zero, or its XML could not be parsed
QueryFailed(e) ==
    /\ e.ev = "svn"
    /\ \/ (e.argv[1] \in {<<"i","n","f","o">>, S_log} /\ (~e.ok \/ ~e.stdout.wellformed))
       \/ (e.argv = <<S_diff, S_summarize>> /\ ~e.ok)

\* C20 (as claimed): no failure of the svn client or of parsing its output
\* escapes as an exception: every operation ends with a return value, and when
\* a query it depends on failed, get_repo_info, get_working_copy_changes and
\* get_commit_info return None, get_file_diff returns (None, 0, 0, False) and
\* the hooks return False.
C20_FailuresReturnSentinels ==
    /\ (pc = "done" => result.kind = "value")
    /\ \A i \in 1..Len(trace) :
          (trace[i].ev = "get_repo_info" /\ QueryFailed(trace[i - 1])) => ~trace[i].ok
    /\ (op = "get_file_diff" /\ pc = "done" /\ ~trace[1].ok =>
          result.value = [diff_content |-> None, lines_added |-> 0, lines_deleted |-> 0,
                          is_binary |-> FALSE])
    /\ (/\ op \in {"get_working_copy_changes", "get_commit_info"}
        /\ pc = "done"
        /\ \E i \in 1..Len(trace) : QueryFailed(trace[i])
        => result.value = NoneObj)
    /\ (InHook /\ pc = "done" /\ (\E i \in 1..Len(trace) : QueryFailed(trace[i])) =>
          result.value = FALSE)


---------------------------------------------------------------------------
(* C21 *)

\* C21 (as claimed): every run of a hook eventually completes, returning its
\* success or failure: no call of the svn client keeps the run from returning
C21_HookRunCompletes == InHook ~> (pc = "done" /\ InHook /\ result.value \in BOOLEAN)

---------------------------------------------------------------------------
(* C22 *)

\* get_commit_info has returned after a successful log query whose entry, its
\* date aside, is in order, with repository info and a revision number at hand
CommitInfoOfAnyDate ==
    /\ op = "get_commit_info"
    /\ pc = "done"
    /\ IsInt(args.revision)
    /\ Len(trace) >= 3
    /\ trace[2].ok
    /\ trace[3].ok
    /\ trace[3].stdout.wellformed
    /\ trace[3].stdout.logentry # NoneObj
    /\ trace[3].stdout.logentry.author = AuthorBob
    /\ trace[3].stdout.logentry.msg = MsgFix
    /\ trace[3].stdout.logentry.paths = <<PathElement(S_M, LogPathA)>>

\* C22 (as claimed): whatever the date of the log entry is, get_commit_info
\* returns a CommitInfo: its date is the instant an ISO-8601 date text names,
\* and the current UTC time for every other date.
C22_DateNeverFails ==
    CommitInfoOfAnyDate =>
        /\ result.value # NoneObj
        /\ result.value.date =
              IF trace[3].stdout.logentry.date = DateFraction
                THEN [year |-> 2025, month |-> 8, day |-> 18, hour |-> 3, minute |-> 23,
                      second |-> 30, microsecond |-> 945026]
                ELSE NowUtc

---------------------------------------------------------------------------
(* C23 *)

\* C23 (as claimed): in the payload the post-commit hook builds from a
\* CommitInfo, object_attributes.message is the commit's message, the same
\* text as commits[0].message and object_attributes.description.
C23_PostPayloadCarriesMessage ==
    (op = "create_post_commit_hook" /\ payload # EmptyDict) =>
        /\ payload.object_attributes.message = info.message
        /\ payload.commits[1].message = info.message
        /\ payload.object_attributes.description = info.message

---------------------------------------------------------------------------
(* C24 *)

\* path ends with one of the comma-separated items of the setting of
\* SUPPORTED_EXTENSIONS (the default setting when the variable is not set)
EndsWithConfigured(path, env) ==
    LET setting == IF env # None THEN env
                   ELSE <<".","j","a","v","a",",",".","p","y",",",".","p","h","p">>
    IN  \E i \in 1..(Len(setting) + 1), j \in 0..Len(setting) :
          /\ i <= j + 1
          /\ (i = 1 \/ setting[i - 1] = ",")
          /\ (j = Len(setting) \/ setting[j + 1] = ",")
          /\ \A k \in i..j : setting[k] # ","
          /\ EndsWith(path, SubSeq(setting, i, j))

\* the positions of the entries of changes that are not deletions and whose
\* new_path has a configured extension
Qualifying(changes, env) ==
    {i \in 1..Len(changes) :
        /\ ("action" \in DOMAIN changes[i] => changes[i].action # S_D)
        /\ EndsWithConfigured(changes[i].new_path, env)}

\* C24: filter_changes returns the qualifying entries of its input, all of
\* them and no other, in the input order: no entry of the result is a deletion
\* or has an unsupported extension, and each result entry has every field of
\* the input entry it comes from.
C24_FilterKeepsQualifying ==
    fmt.op = "filter_changes" =>
        LET idx == Qualifying(fmt.changes, fmt.env)
            Nth(k) == CHOOSE i \in idx : Cardinality({j \in idx : j <= i}) = k
        IN  /\ Len(fmt.filtered) = Cardinality(idx)
            /\ \A k \in 1..Len(fmt.filtered) :
                  /\ fmt.filtered[k].action # S_D
                  /\ EndsWithConfigured(fmt.filtered[k].new_path, fmt.env)
                  /\ \A f \in DOMAIN fmt.changes[Nth(k)] :
                        fmt.filtered[k][f] = fmt.changes[Nth(k)][f]

\* a deletion of 'a.py' followed by an entry that is kept: the result is the
\* second entry alone
C24_Witness ==
    /\ fmt.op = "filter_changes"
    /\ fmt.env = None
    /\ Len(fmt.changes) = 2
    /\ fmt.changes[1].new_path = PathA
    /\ Len(fmt.filtered) = 1
    /\ fmt.filtered[1] = fmt.changes[2]

---------------------------------------------------------------------------
(* C28 *)

\* C28: for a payload the producer built with event type Pre-Commit or
\* Post-Commit, get_commit_changes returns the changes list of the payload, as
\* it is; for a payload with another event type it returns the empty list.
C28_ConsumerReturnsChanges ==
    (fmt.op = "get_commit_changes" /\ fmt.webhook_data # EmptyDict) =>
        IF fmt.webhook_data.event_type \in {S_PreCommit, S_PostCommit}
          THEN fmt.changes = fmt.webhook_data.changes
          ELSE fmt.changes = <<>>

\* a Pre-Commit payload of two changes has been handed to the consumer
C28_Witness ==
    /\ fmt.op = "get_commit_changes"
    /\ fmt.webhook_data # EmptyDict
    /\ fmt.webhook_data.event_type = S_PreCommit
    /\ Len(fmt.webhook_data.changes) = 2
    /\ Len(fmt.changes) = 2

---------------------------------------------------------------------------
(* C25 *)

\* C25 (as claimed): every diff command get_commit_info issues for a changed
\* path of revision r addresses the file by the repository root URL followed
\* by the path and carries a -r selector: r-1:r, or r-1 alone.
C25_CommitDiffsCarryRevision ==
    op \in {"get_commit_info", "create_post_commit_hook"} =>
        \A i \in SvnRunsOf({S_diff}) :
            /\ Len(trace[i].argv) = 4
            /\ trace[i].argv[2] = S_r
            /\ (IsInt(CiRevision) =>
                  trace[i].argv[3] \in {IntToStr(ParseInt(CiRevision) - 1) \o <<":">> \o CiRevision,
                                        IntToStr(ParseInt(CiRevision) - 1)})
            /\ StartsWith(trace[i].argv[4], InfoXml.root \o <<"/">>)

---------------------------------------------------------------------------
(* C26 *)

\* C26 (as claimed): in every run of create_pre_commit_hook that dispatches,
\* the revision of the payload is the base revision every dispatched change
\* records as old_revision, also when the svn client reports another revision
\* in a later call of the run.
C26_OneSnapshotPerRun ==
    (op = "create_pre_commit_hook" /\ Posts # {}) =>
        \A i \in 1..Len(payload.changes) :
            payload.changes[i].old_revision = payload.object_attributes.revision

---------------------------------------------------------------------------
(* C27 *)

\* C27: a hook whose change read succeeds with no file change returns True
\* and makes no dispatch attempt; and a hook returns True only then, or when a
\* dispatch attempt reported success.
C27_NothingToReviewSucceeds ==
    (InHook /\ pc = "done") =>
        /\ (info # NoneObj /\ info.changed_files = <<>> =>
              result.value = TRUE /\ Posts = {})
        /\ (result.value = TRUE =>
              \/ (info # NoneObj /\ info.changed_files = <<>> /\ Posts = {})
              \/ (\E i \in Posts : trace[i].ok))

\* the post-commit hook has returned True for a revision whose log entry has
\* one path, of an action code that is not recognized, without a dispatch
C27_Witness ==
    /\ op = "create_post_commit_hook"
    /\ pc = "done"
    /\ info # NoneObj
    /\ info.changed_files = <<>>
    /\ result.value = TRUE
    /\ Posts = {}
    /\ \E i \in SvnRunsOf({S_log}) : Len(trace[i].stdout.logentry.paths) = 1
====
